---- MODULE Spec2Model ----
(***************************************************************************)
(* RAI Companion: the analysis-component selection and formatting of       *)
(* analytical_engine.py (AnalyticalEngine), the LLM dispatch loop of       *)
(* api_dispatcher.py (APIDispatcher), the input classification of          *)
(* rai_wrapper.py (RAIWrapper) and the request pipeline of app.py          *)
(* (RAICompanion), as state machines.                                      *)
(*                                                                         *)
(* Encodings.  A module id "FL-3" is the pair <<"FL", 3>>, so that         *)
(* module_id.split('-')[0] is the first component; a premise id "D2.3" is  *)
(* <<"D2", 3>>, so that premise_id.split('.')[0] is the first component.   *)
(* Python's sorted() on id strings is the lexicographic order of the       *)
(* strings, modelled on the decimal digits of the numeric suffix.  An      *)
(* Optional value is a sequence of length 0 (None) or 1.                   *)
(***************************************************************************)
EXTENDS Integers, Sequences, FiniteSets, TLC

VARIABLES
    \* ---- AnalyticalEngine.select_analysis_components ----
    engine_pc,          \* "idle" | "returned" | "formatted" | "ordered"
    rai_input,          \* the RAIInput argument of the last call
    analysis_mode,      \* the analysis_mode argument of the last call
    max_modules,        \* the max_modules argument of the last call
    selection,          \* the AnalysisSelection returned by the last call
    formatted_components, \* the lines of the text format_for_prompt returned for it
    \* ---- APIDispatcher ----
    clients,            \* self.clients: the configured providers
    total_requests,     \* self.total_requests
    successful_requests,\* self.successful_requests
    failed_requests,    \* self.failed_requests
    dispatch_pc,        \* "idle" | "attempt" | "returned"
    call,               \* arguments of the dispatch_to_llm call in progress
    attempt,            \* loop variable of "for attempt in range(max_retries)"
    provider_calls,     \* outcomes of the provider calls made by this call
    sleeps,             \* arguments of the time.sleep calls made by this call
    response,           \* the value returned by dispatch_to_llm
    threads,            \* request threads of the server inside dispatch_to_llm
    \* ---- OutputParser ----
    parser_pc,          \* "idle" | "returned"
    parser_args,        \* raw_response and metadata of the last parse_llm_response call
    parsed_result,      \* the ParsedResult returned by the last call
    \* ---- RAIWrapper ----
    default_output_mode,\* self.config["default_output_mode"] of the wrapper
    wrapper_pc,         \* "idle" | "returned"
    wrapper_input,      \* the user_input argument of the last process_input call
    wrapper_result,     \* the dict returned by the last process_input call
    \* ---- RAICompanion ----
    components_loaded,  \* self.components_loaded
    app_pc,             \* the step of process_analysis_request about to run
    request,            \* user_input, selected_llm, analysis_mode of the request
    stages,             \* the pipeline steps entered by the request, in order
    rai_result,         \* what _process_input_wrapper returned
    complete_prompt,    \* what _build_complete_prompt returned
    result              \* the dict returned to the caller of analyze

engine_vars == <<engine_pc, rai_input, analysis_mode, max_modules, selection,
                 formatted_components>>
dispatch_vars == <<clients, total_requests, successful_requests, failed_requests,
                   dispatch_pc, call, attempt, provider_calls, sleeps, response>>
wrapper_vars == <<default_output_mode, wrapper_pc, wrapper_input, wrapper_result>>
app_vars == <<components_loaded, app_pc, request, stages, rai_result, complete_prompt,
              result>>
thread_vars == <<threads>>
parser_vars == <<parser_pc, parser_args, parsed_result>>
vars == <<engine_vars, dispatch_vars, thread_vars, parser_vars, wrapper_vars, app_vars>>

---------------------------------------------------------------------------
(* Bounds of the model.                                                    *)

\* at most this many labels in rai_input.detected_topics
MaxTopics == 1
\* at most this many entry-point keywords occur in rai_input.cleaned_input
MaxHits == 1
\* max_retries arguments 0..MaxRetries
MaxRetries == 4
\* at most this many dispatch_to_llm calls on one dispatcher
MaxDispatches == 2
\* the input texts hold at most this many phrases
MaxPhrases == 2
\* the longest list of module ids handed directly to the ordering step
MaxOrdered == 2
\* the request threads that use the one dispatcher at the same time
MaxThreads == 2
\* the most lines a raw LLM response handed to the parser holds
MaxLines == 2

---------------------------------------------------------------------------
(* Content library (analytical_content.py).                                *)

CL(n) == <<"CL", n>>
FL(n) == <<"FL", n>>
NL(n) == <<"NL", n>>
SL(n) == <<"SL", n>>
D(d, k) == <<"D" \o ToString(d), k>>

CL_modules ==
       (CL(0) :> [name |-> "Input Clarity and Narrative Normalization",
                 philosophical_anchoring |-> <<D(1, 1), D(1, 4), D(6, 2)>>])
    @@ (CL(1) :> [name |-> "Narrative Logic Compression",
                 philosophical_anchoring |-> <<D(1, 3), D(4, 1), D(7, 2)>>])
    @@ (CL(2) :> [name |-> "Epistemic Load Balance",
                 philosophical_anchoring |-> <<D(2, 2), D(1, 4), D(6, 6)>>])
    @@ (CL(3) :> [name |-> "Narrative Stack Tracking",
                 philosophical_anchoring |-> <<D(4, 2), D(6, 3), D(7, 1)>>])
    @@ (CL(4) :> [name |-> "Moral and Strategic Fusion Detection",
                 philosophical_anchoring |-> <<D(6, 2), D(6, 4), D(6, 5)>>])
    @@ (CL(5) :> [name |-> "Evaluative Symmetry Enforcement",
                 philosophical_anchoring |-> <<D(2, 1), D(6, 1), D(3, 3)>>])

FL_modules ==
       (FL(1) :> [name |-> "Claim Clarity and Anchoring",
                 philosophical_anchoring |-> <<D(1, 1), D(1, 2), D(2, 1)>>])
    @@ (FL(2) :> [name |-> "Asymmetrical Amplification Awareness",
                 philosophical_anchoring |-> <<D(3, 2), D(5, 1), D(6, 6)>>])
    @@ (FL(3) :> [name |-> "Source Independence Audit (w/ Pattern Recognition)",
                 philosophical_anchoring |-> <<D(2, 3), D(5, 2), D(3, 2)>>])
    @@ (FL(4) :> [name |-> "Strategic Relevance and Selection",
                 philosophical_anchoring |-> <<D(4, 2), D(7, 2), D(8, 2)>>])
    @@ (FL(5) :> [name |-> "Scale and Proportion Calibration",
                 philosophical_anchoring |-> <<D(1, 2), D(1, 3), D(8, 1)>>])
    @@ (FL(6) :> [name |-> "Neglected Primary Speech Recognition",
                 philosophical_anchoring |-> <<D(2, 3), D(3, 1), D(6, 1)>>])
    @@ (FL(7) :> [name |-> "Risk Context Adjustment",
                 philosophical_anchoring |-> <<D(7, 2), D(8, 3), D(8, 5)>>])
    @@ (FL(8) :> [name |-> "Time & Place Anchoring",
                 philosophical_anchoring |-> <<D(1, 2), D(7, 1), D(7, 4)>>])
    @@ (FL(9) :> [name |-> "Toxic Label Audit",
                 philosophical_anchoring |-> <<D(2, 1), D(3, 3), D(6, 5)>>])

NL_modules ==
       (NL(1) :> [name |-> "Cause-Effect Chain Analysis",
                 philosophical_anchoring |-> <<D(4, 1), D(4, 3), D(7, 2)>>])
    @@ (NL(2) :> [name |-> "Narrative Plausibility & Internal Coherence",
                 philosophical_anchoring |-> <<D(1, 3), D(4, 1), D(6, 1)>>])
    @@ (NL(3) :> [name |-> "Competing Narratives Contrast",
                 philosophical_anchoring |-> <<D(3, 3), D(6, 1), D(8, 4)>>])
    @@ (NL(4) :> [name |-> "Identity, Memory, and Group Interest Framing",
                 philosophical_anchoring |-> <<D(3, 1), D(6, 3), D(7, 1)>>])
    @@ (NL(5) :> [name |-> "Allegory, Analogy, and Symbol Injection",
                 philosophical_anchoring |-> <<D(1, 3), D(4, 2), D(6, 2)>>])
    @@ (NL(6) :> [name |-> "Narrative Gaps",
                 philosophical_anchoring |-> <<D(4, 1), D(7, 1), D(3, 2)>>])

SL_modules ==
       (SL(1) :> [name |-> "Power and Incentive Mapping",
                 philosophical_anchoring |-> <<D(5, 1), D(5, 3), D(8, 2)>>])
    @@ (SL(2) :> [name |-> "Institutional Behavior and Enforcement Patterns",
                 philosophical_anchoring |-> <<D(5, 2), D(5, 3), D(8, 3)>>])
    @@ (SL(3) :> [name |-> "Identity and Memory Exploitation",
                 philosophical_anchoring |-> <<D(3, 1), D(6, 3), D(7, 1)>>])
    @@ (SL(4) :> [name |-> "Function and Purpose Analysis",
                 philosophical_anchoring |-> <<D(4, 2), D(4, 4), D(5, 3)>>])
    @@ (SL(5) :> [name |-> "Systemic Resistance and Inversion",
                 philosophical_anchoring |-> <<D(4, 3), D(5, 3), D(6, 3)>>])
    @@ (SL(6) :> [name |-> "Feedback Systems and Loop Control",
                 philosophical_anchoring |-> <<D(5, 2), D(7, 3), D(8, 4)>>])
    @@ (SL(7) :> [name |-> "Strategic Forecast and Predictive Testing",
                 philosophical_anchoring |-> <<D(7, 2), D(7, 4), D(8, 5)>>])
    @@ (SL(8) :> [name |-> "Systemic Blind Spots and Vulnerabilities",
                 philosophical_anchoring |-> <<D(3, 2), D(5, 3), D(8, 4)>>])
    @@ (SL(9) :> [name |-> "Adaptive Evolution Awareness",
                 philosophical_anchoring |-> <<D(7, 3), D(7, 4), D(8, 6)>>])
    @@ (SL(10) :> [name |-> "Feedback Loop Mapping and Distortion Patterns (Optional)",
                  philosophical_anchoring |-> <<D(5, 2), D(7, 3), D(8, 4)>>])
    @@ (SL(11) :> [name |-> "Technocratic Logic and Algorithmic Governance (Optional)",
                  philosophical_anchoring |-> <<D(5, 3), D(8, 6), D(8, 7)>>])
    @@ (SL(12) :> [name |-> "Digital Infrastructure Control and Dependency (Optional)",
                  philosophical_anchoring |-> <<D(5, 2), D(8, 2), D(8, 7)>>])

MODULE_LIBRARY ==
    [CL |-> [modules |-> CL_modules],
     FL |-> [modules |-> FL_modules],
     NL |-> [modules |-> NL_modules],
     SL |-> [modules |-> SL_modules]]

PREMISE_LIBRARY ==
    [dimensions |->
           ("D1" :> [premises |-> {D(1, 1), D(1, 2), D(1, 3)}])
        @@ ("D2" :> [premises |-> {D(2, 1), D(2, 2), D(2, 3), D(2, 4), D(2, 5), D(2, 6), D(2, 7)}])
        @@ ("D3" :> [premises |-> {D(3, 1), D(3, 2), D(3, 3), D(3, 4), D(3, 5)}])
        @@ ("D4" :> [premises |-> {D(4, 1), D(4, 2), D(4, 3), D(4, 4), D(4, 5)}])
        @@ ("D5" :> [premises |-> {D(5, 1), D(5, 2), D(5, 3), D(5, 4), D(5, 5)}])
        @@ ("D6" :> [premises |-> {D(6, 1), D(6, 2), D(6, 3), D(6, 4), D(6, 5), D(6, 6)}])
        @@ ("D7" :> [premises |-> {D(7, 1), D(7, 2), D(7, 3), D(7, 4), D(7, 5), D(7, 6), D(7, 7)}])
        @@ ("D8" :> [premises |-> {D(8, 1), D(8, 2), D(8, 3), D(8, 4), D(8, 5), D(8, 6), D(8, 7), D(8, 8)}])
    ]

---------------------------------------------------------------------------
(* Python helpers.                                                         *)

\* Python None in an int field of RAIInput (comparing it with an int raises)
None == -1

\* the decimal digits of a numeric suffix, as str() writes them
Digits(n) == IF n < 10 THEN <<n>> ELSE <<n \div 10, n % 10>>

RECURSIVE LexLess(_, _)
\* lexicographic order of two digit strings
LexLess(a, b) ==
    IF a = <<>> THEN b # <<>>
    ELSE IF b = <<>> THEN FALSE
    ELSE IF Head(a) # Head(b) THEN Head(a) < Head(b)
    ELSE LexLess(Tail(a), Tail(b))

\* alphabetical rank of the two-letter level prefix
LevelRank(level) ==
    CASE level = "CL" -> 0 [] level = "FL" -> 1 [] level = "NL" -> 2 [] level = "SL" -> 3

\* str.__lt__ on two module id strings "XX-n"
StrLess(a, b) ==
    IF a[1] # b[1] THEN LevelRank(a[1]) < LevelRank(b[1])
    ELSE LexLess(Digits(a[2]), Digits(b[2]))

RECURSIVE Insert(_, _)
Insert(x, s) ==
    IF s = <<>> THEN <<x>>
    ELSE IF StrLess(x, Head(s)) THEN <<x>> \o s
    ELSE <<Head(s)>> \o Insert(x, Tail(s))

RECURSIVE sorted(_)
\* sorted(list of module id strings): stable, ascending by string order
sorted(s) == IF s = <<>> THEN <<>> ELSE Insert(s[Len(s)], sorted(SubSeq(s, 1, Len(s) - 1)))

\* "x in list"
In(x, s) == \E i \in 1..Len(s) : s[i] = x

RECURSIVE AppendMissing(_, _)
\* for module in modules: if module not in selected: selected.append(module)
AppendMissing(selected, modules) ==
    IF modules = <<>> THEN selected
    ELSE AppendMissing(IF In(Head(modules), selected) THEN selected
                       ELSE Append(selected, Head(modules)),
                       Tail(modules))

\* [x for x in s if pred], for the level prefix tests
RECURSIVE WithPrefix(_, _)
WithPrefix(ids, level) ==
    IF ids = <<>> THEN <<>>
    ELSE (IF Head(ids)[1] = level THEN <<Head(ids)>> ELSE <<>>) \o WithPrefix(Tail(ids), level)

\* list.remove(x): drops the first occurrence
RECURSIVE Remove(_, _)
Remove(s, x) ==
    IF s = <<>> THEN <<>>
    ELSE IF Head(s) = x THEN Tail(s)
    ELSE <<Head(s)>> \o Remove(Tail(s), x)

\* a slip of the slice: s[-n:] keeps the last n entries
Slice_Last(s, n) == SubSeq(s, IF Len(s) < n THEN 1 ELSE Len(s) - n + 1, Len(s))

\* s[:n]
Slice(s, n) == SubSeq(s, 1, IF Len(s) < n THEN Len(s) ELSE n)

Max(a, b) == IF a >= b THEN a ELSE b

RECURSIVE Sum(_)
Sum(s) == IF s = <<>> THEN 0 ELSE Head(s) + Sum(Tail(s))

---------------------------------------------------------------------------
(* Python str helpers.  A str is a TLA+ string; s[i:j] is SubSeq.          *)

Char(s, i) == SubSeq(s, i, i)

\* sub in s
Contains(s, sub) ==
    \E i \in 1..(Len(s) - Len(sub) + 1) : SubSeq(s, i, i + Len(sub) - 1) = sub

\* s.startswith(prefix)
StartsWith(s, prefix) == Len(s) >= Len(prefix) /\ SubSeq(s, 1, Len(prefix)) = prefix

UpperCase == "ABCDEFGHIJKLMNOPQRSTUVWXYZ"
LowerCase == "abcdefghijklmnopqrstuvwxyz"
DigitChars == {"0", "1", "2", "3", "4", "5", "6", "7", "8", "9"}
\* \s of the re module, for the characters an input line can hold
WhitespaceChars == {" ", "\t", "\n", "\r"}
\* \w of the re module
WordChars == {Char(UpperCase, i) : i \in 1..26} \cup {Char(LowerCase, i) : i \in 1..26}
             \cup DigitChars \cup {"_"}

LowerOf(c) ==
    IF \E i \in 1..26 : Char(UpperCase, i) = c
    THEN Char(LowerCase, CHOOSE i \in 1..26 : Char(UpperCase, i) = c)
    ELSE c

RECURSIVE Concat(_, _, _)
\* ''.join(f[lo], ..., f[hi]) of a function f from positions to strings
Concat(f, lo, hi) ==
    IF lo > hi THEN ""
    ELSE IF lo = hi THEN f[lo]
    ELSE LET mid == (lo + hi) \div 2
         IN  Concat(f, lo, mid) \o Concat(f, mid + 1, hi)

\* s.lower()
lower(s) == Concat([i \in 1..Len(s) |-> LowerOf(Char(s, i))], 1, Len(s))

\* s without its leading run of characters of the set
SkipRun(s, chars) ==
    IF \A i \in 1..Len(s) : Char(s, i) \in chars THEN ""
    ELSE SubSeq(s, CHOOSE i \in 1..Len(s) : /\ Char(s, i) \notin chars
                                           /\ \A j \in 1..(i - 1) : Char(s, j) \in chars,
                Len(s))

lstrip(s) == SkipRun(s, WhitespaceChars)

rstrip(s) ==
    IF \A i \in 1..Len(s) : Char(s, i) \in WhitespaceChars THEN ""
    ELSE SubSeq(s, 1, CHOOSE i \in 1..Len(s) :
                          /\ Char(s, i) \notin WhitespaceChars
                          /\ \A j \in (i + 1)..Len(s) : Char(s, j) \in WhitespaceChars)

\* s.strip()
strip(s) == rstrip(lstrip(s))

UpperOf(c) ==
    IF \E i \in 1..26 : Char(LowerCase, i) = c
    THEN Char(UpperCase, CHOOSE i \in 1..26 : Char(LowerCase, i) = c)
    ELSE c

\* s.title(), for a single word
title(s) == IF s = "" THEN "" ELSE UpperOf(Char(s, 1)) \o lower(SubSeq(s, 2, Len(s)))

\* re.sub of every maximal run of characters of the set by rep
CollapseRuns(s, chars, rep) ==
    Concat([i \in 1..Len(s) |->
               IF Char(s, i) \notin chars THEN Char(s, i)
               ELSE IF i > 1 /\ Char(s, i - 1) \in chars THEN ""
               ELSE rep],
           1, Len(s))

\* position i of s is at a \b followed by a word character
WordStart(s, i) ==
    /\ i <= Len(s)
    /\ Char(s, i) \in WordChars
    /\ (i = 1 \/ Char(s, i - 1) \notin WordChars)

---------------------------------------------------------------------------
(* AnalyticalEngine (analytical_engine.py).                                *)

AnalysisMode == {"quick", "guided", "expert"}

InputType == {"factual_claim", "narrative", "system_premise", "mixed", "question"}

\* the domains RAIWrapper._detect_topics can report, in its dict order
TopicDomains == <<"power_governance", "geopolitical", "information", "civilization",
                  "systems", "ethics", "temporal", "economy">>

\* _determine_entry_point: True when a comparison of the input raises TypeError
EntryPointRaises(input) == input.complexity_score = None

\* the entry point, were the two comparisons strict (fact wins the ties)
_determine_entry_point_StrictTies(input) ==
    LET system_score    == input.system_hits
                           + (IF input.input_type = "system_premise" THEN 2 ELSE 0)
                           + (IF input.complexity_score >= 4 THEN 1 ELSE 0)
        narrative_score == input.narrative_hits
                           + (IF input.input_type = "narrative" THEN 2 ELSE 0)
        fact_score      == input.fact_hits
                           + (IF input.input_type = "factual_claim" THEN 2 ELSE 0)
    IN  IF system_score > Max(narrative_score, fact_score) THEN "system"
        ELSE IF narrative_score > fact_score THEN "narrative"
        ELSE "fact"

_determine_entry_point(input) ==
    LET system_score    == input.system_hits
                           + (IF input.input_type = "system_premise" THEN 2 ELSE 0)
                           + (IF input.complexity_score >= 4 THEN 1 ELSE 0)
        narrative_score == input.narrative_hits
                           + (IF input.input_type = "narrative" THEN 2 ELSE 0)
        fact_score      == input.fact_hits
                           + (IF input.input_type = "factual_claim" THEN 2 ELSE 0)
    IN  IF system_score >= Max(narrative_score, fact_score) THEN "system"
        ELSE IF narrative_score >= fact_score THEN "narrative"
        ELSE "fact"

essential_modules == <<CL(0)>>

type_modules ==
    [factual_claim  |-> <<FL(1), FL(8), FL(3), FL(2)>>,
     narrative      |-> <<NL(1), NL(2), NL(3), NL(4)>>,
     system_premise |-> <<SL(1), SL(2), SL(4), SL(8)>>,
     mixed          |-> <<FL(1), NL(1), SL(1), FL(8)>>]

topic_modules ==
    [geopolitical     |-> <<SL(1), SL(4), FL(7), SL(8), NL(4)>>,
     information      |-> <<FL(2), FL(3), SL(8), FL(9), CL(4)>>,
     power_governance |-> <<SL(1), SL(2), CL(4), CL(5)>>,
     systems          |-> <<SL(6), SL(8), CL(2), SL(9)>>,
     economy          |-> <<SL(1), SL(2), FL(4), FL(7)>>,
     cultural         |-> <<NL(4), NL(5), SL(3), CL(3)>>]

complex_modules == <<SL(8), CL(2), CL(3), SL(9), NL(3)>>

high_stakes == <<FL(7), FL(9), CL(4), CL(5), SL(3)>>

RECURSIVE AddTopics(_, _)
\* for topic in rai_input.detected_topics: add topic_modules.get(topic, [])
AddTopics(selected, topics) ==
    IF topics = <<>> THEN selected
    ELSE AddTopics(AppendMissing(selected,
                                 IF Head(topics) \in DOMAIN topic_modules
                                 THEN topic_modules[Head(topics)] ELSE <<>>),
                   Tail(topics))

\* levels_present, and the three appends that repair a missing level
EnsureLevels(selected) ==
    LET levels_present == {selected[i][1] : i \in 1..Len(selected)}
        s1 == IF "FL" \notin levels_present THEN Append(selected, FL(1)) ELSE selected
        s2 == IF "NL" \notin levels_present THEN Append(s1, NL(1)) ELSE s1
    IN  IF "SL" \notin levels_present THEN Append(s2, SL(1)) ELSE s2

\* the guard, were it to limit the pool in quick mode only
IsSimpleInput_QuickOnly(input, mode) ==
    /\ mode = "quick"
    /\ input.complexity_score <= 2
    /\ input.emotional_charge <= 2
    /\ input.detected_topics = <<>>
    /\ input.input_type = "factual_claim"

\* the guard of the final "selected = selected[:6]"
IsSimpleInput(input, mode) ==
    /\ input.complexity_score <= 2
    /\ input.emotional_charge <= 2
    /\ input.detected_topics = <<>>
    /\ input.input_type = "factual_claim"

\* _select_modules_semantic: True when a comparison of the input raises TypeError
SelectModulesRaises(input) == input.emotional_charge = None

\* the list "selected" of _select_modules_semantic before its final slice
CandidatePool(input) ==
    LET type_specific == IF input.input_type \in DOMAIN type_modules
                         THEN type_modules[input.input_type] ELSE type_modules["mixed"]
        s1 == AppendMissing(essential_modules, type_specific)
        s2 == AddTopics(s1, input.detected_topics)
        s3 == IF input.complexity_score >= 4 THEN AppendMissing(s2, complex_modules) ELSE s2
        s4 == IF input.emotional_charge >= 4 THEN AppendMissing(s3, high_stakes) ELSE s3
    IN  EnsureLevels(s4)

\* the final slice, were its guard dropped
_select_modules_semantic_AlwaysSlices(input, mode, maxm) ==
    Slice(CandidatePool(input), 6)

_select_modules_semantic(input, mode, maxm) ==
    IF IsSimpleInput(input, mode) THEN Slice(CandidatePool(input), 6)
    ELSE CandidatePool(input)

\* str of a module id and of a premise id: "FL-3", "D2.3"
ModuleIdStr(module_id) == module_id[1] \o "-" \o ToString(module_id[2])
PremiseIdStr(premise_id) == premise_id[1] \o "." \o ToString(premise_id[2])

\* module_data["purpose"]: the library text, kept as a label naming its entry
purpose(module_id) == "purpose of " \o ModuleIdStr(module_id)

\* module_data.get("core_questions", []): as many texts as the library entry
\* lists, each kept as a label naming its entry
core_questions(module_id) ==
    LET n == IF module_id[1] # "SL" THEN 4 ELSE IF module_id[2] = 10 THEN 2 ELSE 3
    IN  [k \in 1..n |-> "question " \o ToString(k) \o " of " \o ModuleIdStr(module_id)]

\* module_data.get("wisdom_injected", []), likewise
wisdom_injected(module_id) ==
    LET n == IF module_id[1] \in {"CL", "FL"} \/ module_id = NL(1) THEN 3
             ELSE IF module_id \in {SL(10), SL(12)} THEN 1 ELSE 2
    IN  [k \in 1..n |-> "wisdom " \o ToString(k) \o " of " \o ModuleIdStr(module_id)]

_get_module_data(module_id) ==
    LET level == module_id[1]
    IN  IF level \in DOMAIN MODULE_LIBRARY
        THEN IF module_id \in DOMAIN MODULE_LIBRARY[level].modules
             THEN <<MODULE_LIBRARY[level].modules[module_id]>>
             ELSE <<>>
        ELSE <<>>

_get_premise_data(premise_id) ==
    LET dimension == premise_id[1]
    IN  IF dimension \in DOMAIN PREMISE_LIBRARY.dimensions
        THEN IF premise_id \in PREMISE_LIBRARY.dimensions[dimension].premises
             THEN <<premise_id>>
             ELSE <<>>
        ELSE <<>>

\* the inner loop, were "if premise_data" dropped
ResolveAnchors_Unchecked(anchoring_ids) ==
    [i \in 1..Len(anchoring_ids) |-> [id |-> anchoring_ids[i]]]

RECURSIVE ResolveAnchors(_)
\* the inner loop of _build_analysis_components over anchoring_ids
ResolveAnchors(anchoring_ids) ==
    IF anchoring_ids = <<>> THEN <<>>
    ELSE (IF _get_premise_data(Head(anchoring_ids)) # <<>>
          THEN <<[id |-> Head(anchoring_ids)]>> ELSE <<>>)
         \o ResolveAnchors(Tail(anchoring_ids))

RECURSIVE _build_analysis_components(_)
_build_analysis_components(module_ids) ==
    IF module_ids = <<>> THEN <<>>
    ELSE LET module_id   == Head(module_ids)
             module_data == _get_module_data(module_id)
         IN  (IF module_data = <<>> THEN <<>>
              ELSE <<[module_id               |-> module_id,
                      module_name             |-> module_data[1].name,
                      module_purpose          |-> purpose(module_id),
                      core_questions          |-> core_questions(module_id),
                      philosophical_anchoring |-> module_data[1].philosophical_anchoring,
                      anchored_premises       |->
                          ResolveAnchors(module_data[1].philosophical_anchoring),
                      wisdom_injected         |-> wisdom_injected(module_id)]>>)
             \o _build_analysis_components(Tail(module_ids))

\* [c.module_id for c in components]
ComponentIds(components) == [i \in 1..Len(components) |-> components[i].module_id]

\* the ordering, were cl_modules.remove("CL-0") dropped
_generate_execution_order_KeepsCL0(components, entry_point) ==
    LET ids         == ComponentIds(components)
        cl_modules  == WithPrefix(ids, "CL")
        fl_modules  == WithPrefix(ids, "FL")
        nl_modules  == WithPrefix(ids, "NL")
        sl_modules  == WithPrefix(ids, "SL")
        order0      == IF In(CL(0), cl_modules) THEN <<CL(0)>> ELSE <<>>
        order1      == order0 \o sorted(cl_modules)
    IN  IF entry_point = "system"
        THEN order1 \o sorted(sl_modules) \o sorted(nl_modules) \o sorted(fl_modules)
        ELSE IF entry_point = "narrative"
        THEN order1 \o sorted(nl_modules) \o sorted(fl_modules) \o sorted(sl_modules)
        ELSE order1 \o sorted(fl_modules) \o sorted(nl_modules) \o sorted(sl_modules)

\* the ordering, were the entry point not read (the levels always fact first)
_generate_execution_order_FactFirst(components, entry_point) ==
    LET ids         == ComponentIds(components)
        cl_all      == WithPrefix(ids, "CL")
        fl_modules  == WithPrefix(ids, "FL")
        nl_modules  == WithPrefix(ids, "NL")
        sl_modules  == WithPrefix(ids, "SL")
        order0      == IF In(CL(0), cl_all) THEN <<CL(0)>> ELSE <<>>
        cl_modules  == IF In(CL(0), cl_all) THEN Remove(cl_all, CL(0)) ELSE cl_all
    IN  order0 \o sorted(cl_modules)
        \o sorted(fl_modules) \o sorted(nl_modules) \o sorted(sl_modules)

_generate_execution_order(components, entry_point) ==
    LET ids         == ComponentIds(components)
        cl_all      == WithPrefix(ids, "CL")
        fl_modules  == WithPrefix(ids, "FL")
        nl_modules  == WithPrefix(ids, "NL")
        sl_modules  == WithPrefix(ids, "SL")
        order0      == IF In(CL(0), cl_all) THEN <<CL(0)>> ELSE <<>>
        cl_modules  == IF In(CL(0), cl_all) THEN Remove(cl_all, CL(0)) ELSE cl_all
        order1      == order0 \o sorted(cl_modules)
    IN  IF entry_point = "system"
        THEN order1 \o sorted(sl_modules) \o sorted(nl_modules) \o sorted(fl_modules)
        ELSE IF entry_point = "narrative"
        THEN order1 \o sorted(nl_modules) \o sorted(fl_modules) \o sorted(sl_modules)
        ELSE order1 \o sorted(fl_modules) \o sorted(nl_modules) \o sorted(sl_modules)

\* sum(len(c.anchored_premises) for c in components)
TotalPremises(components) ==
    Sum([i \in 1..Len(components) |-> Len(components[i].anchored_premises)])

RECURSIVE Join(_, _)
\* sep.join(parts), each part and the result a text: a sequence of fragments
Join(parts, sep) ==
    IF parts = <<>> THEN <<>>
    ELSE IF Len(parts) = 1 THEN parts[1]
    ELSE parts[1] \o <<sep>> \o Join(Tail(parts), sep)

RECURSIVE LevelsInOrder(_)
\* the keys of level_counts, in dict insertion order
LevelsInOrder(ids) ==
    IF ids = <<>> THEN <<>>
    ELSE LET rest == LevelsInOrder(SubSeq(ids, 1, Len(ids) - 1))
             level == ids[Len(ids)][1]
         IN  IF In(level, rest) THEN rest ELSE Append(rest, level)

\* the rationale text, kept as the sequence of the fragments the f-strings
\* concatenate (the Python string is their concatenation)
_generate_rationale(input, components, mode) ==
    LET ids    == ComponentIds(components)
        levels == LevelsInOrder(ids)
        level_summary ==
            Join([i \in 1..Len(levels) |->
                    <<levels[i], "=", ToString(Len(WithPrefix(ids, levels[i])))>>], ", ")
        total_premises == TotalPremises(components)
        part1 == << <<"Input classified as ", input.input_type, " with complexity ",
                      ToString(input.complexity_score), "/5">> >>
        part2 == IF input.detected_topics # <<>>
                 THEN << <<"Detected topics: ">>
                         \o Join([i \in 1..Len(input.detected_topics) |->
                                    <<input.detected_topics[i]>>], ", ") >>
                 ELSE <<>>
        part3 == << <<"Selected ", ToString(Len(components)), " modules (">>
                    \o level_summary \o <<") for ", mode, " analysis">> >>
        part4 == IF total_premises > 0
                 THEN << <<"Extracted ", ToString(total_premises),
                           " anchored premises for philosophical depth">> >>
                 ELSE <<>>
    IN  Join(part1 \o part2 \o part3 \o part4, ". ") \o <<".">>

fallback_modules == <<CL(0), FL(1), NL(1), SL(1)>>

RECURSIVE FallbackComponents(_)
\* the loop of _fallback_selection: components without anchoring
FallbackComponents(module_ids) ==
    IF module_ids = <<>> THEN <<>>
    ELSE LET module_data == _get_module_data(Head(module_ids))
         IN  (IF module_data # <<>>
              THEN <<[module_id               |-> Head(module_ids),
                      module_name             |-> module_data[1].name,
                      module_purpose          |-> purpose(Head(module_ids)),
                      core_questions          |-> core_questions(Head(module_ids)),
                      philosophical_anchoring |-> <<>>,
                      anchored_premises       |-> <<>>,
                      wisdom_injected         |-> <<>>]>>
              ELSE <<>>)
             \o FallbackComponents(Tail(module_ids))

_fallback_selection(input) ==
    LET components == FallbackComponents(fallback_modules)
    IN  [entry_point         |-> "fact",
         components          |-> components,
         execution_order     |-> fallback_modules,
         total_modules       |-> Len(components),
         total_premises      |-> 0,
         selection_rationale |-> <<"Fallback selection due to processing error">>]

\* the try block of select_analysis_components, steps 1 to 5
MainSelection(input, mode, maxm) ==
    LET entry_point         == _determine_entry_point(input)
        selected_module_ids == _select_modules_semantic(input, mode, maxm)
        components          == _build_analysis_components(selected_module_ids)
        execution_order     == _generate_execution_order(components, entry_point)
        rationale           == _generate_rationale(input, components, mode)
    IN  [entry_point         |-> entry_point,
         components          |-> components,
         execution_order     |-> execution_order,
         total_modules       |-> Len(components),
         total_premises      |-> TotalPremises(components),
         selection_rationale |-> rationale]

\* the value returned, were the except clause to miss a TypeError of step 2
\* (the exception leaves the function: no Selection)
SelectionOf_NarrowExcept(input, mode, maxm) ==
    IF EntryPointRaises(input) THEN _fallback_selection(input)
    ELSE IF SelectModulesRaises(input) THEN [entry_point |-> "none"]
    ELSE MainSelection(input, mode, maxm)

\* the value select_analysis_components returns: the except branch on any raise
SelectionOf(input, mode, maxm) ==
    IF EntryPointRaises(input) \/ SelectModulesRaises(input)
    THEN _fallback_selection(input)
    ELSE MainSelection(input, mode, maxm)

\* the lines the loop of format_for_prompt appends for one component; a line
\* is the sequence of the fragments its f-string concatenates, <<>> the empty
\* line (the bullet and arrow characters of the source are written "- ", " -> ")
ComponentLines(component) ==
    LET cq == component.core_questions
        ap == component.anchored_premises
        wi == component.wisdom_injected
    IN  << <<"**", ModuleIdStr(component.module_id), ": ", component.module_name, "**">>,
           <<"*Purpose:* ", component.module_purpose>>,
           <<>> >>
        \o (IF cq # <<>>
            THEN << <<"*Core Questions:*">> >>
                 \o [k \in 1..Len(cq) |-> <<"- ", cq[k]>>] \o << <<>> >>
            ELSE <<>>)
        \o (IF ap # <<>>
            THEN << <<"*Philosophical Anchoring:*">> >>
                 \o [k \in 1..(2 * Len(ap)) |->
                        IF k % 2 = 1
                        THEN <<"- **", PremiseIdStr(ap[(k + 1) \div 2].id), "**: ",
                               "title of " \o PremiseIdStr(ap[(k + 1) \div 2].id)>>
                        ELSE <<"  ", "content of " \o PremiseIdStr(ap[k \div 2].id)>>]
                 \o << <<>> >>
            ELSE <<>>)
        \o (IF wi # <<>>
            THEN << <<"*Wisdom Guidance:*">> >>
                 \o [k \in 1..Len(wi) |-> <<"- *", wi[k], "*">>] \o << <<>> >>
            ELSE <<>>)
        \o << <<"---">>, <<>> >>

RECURSIVE AllComponentLines(_)
\* for component in selection.components: append its lines
AllComponentLines(components) ==
    IF components = <<>> THEN <<>>
    ELSE ComponentLines(Head(components)) \o AllComponentLines(Tail(components))

\* the formatting, were the loop to skip a component without anchored premises
format_for_prompt_SkipsUnanchored(sel) ==
    IF sel.components = <<>> THEN <<>>
    ELSE << <<"**SELECTED RAI ANALYSIS COMPONENTS:**">>,
            <<>>,
            <<"**Entry Point:** ", title(sel.entry_point), "-Level Analysis">>,
            <<"**Execution Order:** ">>
                \o Join([i \in 1..Len(sel.execution_order) |->
                            <<ModuleIdStr(sel.execution_order[i])>>], " -> "),
            <<>> >>
         \o AllComponentLines(SelectSeq(sel.components,
                                        LAMBDA c : c.anchored_premises # <<>>))
         \o << <<"**Selection Rationale:** ">> \o sel.selection_rationale, <<>> >>

\* format_for_prompt: formatted_parts, the lines that "\n".join puts together
format_for_prompt(sel) ==
    IF sel.components = <<>> THEN <<>>
    ELSE << <<"**SELECTED RAI ANALYSIS COMPONENTS:**">>,
            <<>>,
            <<"**Entry Point:** ", title(sel.entry_point), "-Level Analysis">>,
            <<"**Execution Order:** ">>
                \o Join([i \in 1..Len(sel.execution_order) |->
                            <<ModuleIdStr(sel.execution_order[i])>>], " -> "),
            <<>> >>
         \o AllComponentLines(sel.components)
         \o << <<"**Selection Rationale:** ">> \o sel.selection_rationale, <<>> >>

---------------------------------------------------------------------------
(* Inputs of select_analysis_components.                                   *)

RECURSIVE TopicList(_)
\* the labels with indices in S, in the order _detect_topics appends them
TopicList(S) ==
    IF S = {} THEN <<>>
    ELSE LET i == CHOOSE j \in S : \A k \in S : j <= k
         IN  <<TopicDomains[i]>> \o TopicList(S \ {i})

TopicLists ==
    {TopicList(S) : S \in {T \in SUBSET (1..Len(TopicDomains)) : Cardinality(T) <= MaxTopics}}

\* RAIInput records as RAIWrapper._normalize_input builds them; cleaned_input is
\* kept as the number of keywords of each entry-point list that occur in it
WellFormedInputs ==
    [input_type       : InputType,
     complexity_score : 1..5,
     emotional_charge : 1..5,
     detected_topics  : TopicLists,
     system_hits      : 0..MaxHits,
     narrative_hits   : 0..MaxHits,
     fact_hits        : 0..MaxHits]

\* records with None in an int field, on which a step of the selection raises
MalformedInputs ==
    LET base == {r \in WellFormedInputs : r.complexity_score = 1 /\ r.emotional_charge = 1}
    IN  {[r EXCEPT !.complexity_score = None] : r \in base}
        \cup {[r EXCEPT !.emotional_charge = None] : r \in base}

RaiInputs == WellFormedInputs \cup MalformedInputs

\* the default of the max_modules parameter
DefaultMaxModules == 6

\* the max_modules arguments tried: the default and one above it
MaxModulesArgs == {DefaultMaxModules, DefaultMaxModules + 1}

NoInput == [input_type |-> "none"]
NoSelection == [entry_point |-> "none"]

EngineInit ==
    /\ engine_pc = "idle"
    /\ rai_input = NoInput
    /\ analysis_mode = "none"
    /\ max_modules = 0
    /\ selection = NoSelection
    /\ formatted_components = <<>>

select_analysis_components(input, mode, maxm) ==
    /\ engine_pc = "idle"
    /\ engine_pc' = "returned"
    /\ rai_input' = input
    /\ analysis_mode' = mode
    /\ max_modules' = maxm
    /\ selection' = SelectionOf(input, mode, maxm)
    /\ formatted_components' = <<>>
    /\ UNCHANGED <<dispatch_vars, thread_vars, parser_vars, wrapper_vars, app_vars>>

\* the caller formats the Selection it got for the prompt
FormatSelection ==
    /\ engine_pc = "returned"
    /\ engine_pc' = "formatted"
    /\ formatted_components' = format_for_prompt(selection)
    /\ UNCHANGED <<rai_input, analysis_mode, max_modules, selection,
                   dispatch_vars, thread_vars, parser_vars, wrapper_vars, app_vars>>

\* the caller consumes the Selection; the engine keeps nothing of the call
EngineDiscard ==
    /\ engine_pc \in {"returned", "formatted", "ordered"}
    /\ engine_pc' = "idle"
    /\ rai_input' = NoInput
    /\ analysis_mode' = "none"
    /\ max_modules' = 0
    /\ selection' = NoSelection
    /\ formatted_components' = <<>>
    /\ UNCHANGED <<dispatch_vars, thread_vars, parser_vars, wrapper_vars, app_vars>>

\* every module id of the library
LibraryModuleIds ==
    UNION {DOMAIN MODULE_LIBRARY[level].modules : level \in DOMAIN MODULE_LIBRARY}

\* the lists of distinct library module ids handed to the ordering step
ModuleIdLists ==
    {ids \in UNION {[1..n -> LibraryModuleIds] : n \in 0..MaxOrdered} :
        \A i \in 1..Len(ids) : \A j \in 1..Len(ids) : i # j => ids[i] # ids[j]}

\* steps 3 and 4 of select_analysis_components on a given list of module
\* ids and a given entry point: the components, then their execution order
OrderModules(module_ids, entry_point) ==
    /\ engine_pc = "idle"
    /\ engine_pc' = "ordered"
    /\ selection' =
          LET components == _build_analysis_components(module_ids)
          IN  [entry_point         |-> entry_point,
               components          |-> components,
               execution_order     |-> _generate_execution_order(components, entry_point),
               total_modules       |-> Len(components),
               total_premises      |-> TotalPremises(components),
               selection_rationale |-> <<>>]
    /\ UNCHANGED <<rai_input, analysis_mode, max_modules, formatted_components,
                   dispatch_vars, thread_vars, parser_vars, wrapper_vars, app_vars>>

OrderingNext ==
    \/ /\ engine_pc = "idle"
       /\ \E module_ids \in ModuleIdLists, entry_point \in {"system", "narrative", "fact"} :
             OrderModules(module_ids, entry_point)
    \/ EngineDiscard

EngineNext ==
    \/ /\ engine_pc = "idle"
       /\ \E input \in RaiInputs, mode \in AnalysisMode, maxm \in MaxModulesArgs :
             select_analysis_components(input, mode, maxm)
    \/ FormatSelection
    \/ EngineDiscard

---------------------------------------------------------------------------
(* APIDispatcher (api_dispatcher.py).                                      *)

LLMProvider == {"openai", "deepseek", "anthropic", "gemini"}

model_aliases ==
       ("gpt-4"         :> <<"openai", "gpt-4">>)
    @@ ("gpt-4-turbo"   :> <<"openai", "gpt-4-turbo-preview">>)
    @@ ("gpt-3.5"       :> <<"openai", "gpt-3.5-turbo">>)
    @@ ("gpt-3.5-turbo" :> <<"openai", "gpt-3.5-turbo">>)
    @@ ("deepseek"      :> <<"deepseek", "deepseek-chat">>)
    @@ ("deepseek-chat" :> <<"deepseek", "deepseek-chat">>)
    @@ ("claude"        :> <<"anthropic", "claude-3-sonnet-20240229">>)
    @@ ("claude-3"      :> <<"anthropic", "claude-3-sonnet-20240229">>)
    @@ ("claude-sonnet" :> <<"anthropic", "claude-3-sonnet-20240229">>)
    @@ ("gemini"        :> <<"gemini", "gemini-pro">>)
    @@ ("gemini-pro"    :> <<"gemini", "gemini-pro">>)
    @@ ("gemini-1.5"    :> <<"gemini", "gemini-1.5-pro-latest">>)

\* the model_alias arguments tried: one alias of each provider and an unknown one
ModelAliasArgs == {"gpt-4", "deepseek-chat", "claude", "gemini-pro", "llama-3"}

\* what a provider call can end with: a response, or one of the failures
\* the _call_* functions tell apart
Failures == {"RateLimited", "AuthFailed", "Timeout", "Transient"}
Outcomes == {"success"} \cup Failures

ProviderName(provider) ==
    CASE provider = "openai"    -> "OpenAI"
      [] provider = "deepseek"  -> "DeepSeek"
      [] provider = "anthropic" -> "Anthropic"
      [] provider = "gemini"    -> "Gemini"

\* str(e) of the Exception a _call_* function raises for a failure
ErrorMessage(provider, failure) ==
    CASE failure = "RateLimited" -> ProviderName(provider) \o " rate limit exceeded"
      [] failure = "AuthFailed"  -> ProviderName(provider) \o " authentication failed"
      [] failure = "Timeout"     -> IF provider = "deepseek" THEN "DeepSeek request timeout"
                                    ELSE ProviderName(provider) \o " API error: timeout"
      [] failure = "Transient"   -> ProviderName(provider) \o " API error: transient"

\* a slip of the delay: 2 * attempt
Backoff_Linear(n) == 2 * n

\* the argument of time.sleep after failed attempt n: 2 ** attempt
Backoff(n) == 2 ^ n

LLMResponse(status, provider, model, error_message) ==
    [status |-> status, provider |-> provider, model |-> model,
     error_message |-> error_message]

NoCall == [model_alias |-> "none", max_retries |-> 0]

\* APIDispatcher.__init__: the counters, and the clients _setup_clients configures
DispatcherInit ==
    /\ clients \in SUBSET LLMProvider
    /\ total_requests = 0
    /\ successful_requests = 0
    /\ failed_requests = 0
    /\ dispatch_pc = "idle"
    /\ call = NoCall
    /\ attempt = 0
    /\ provider_calls = <<>>
    /\ sleeps = <<>>
    /\ response = <<>>

\* a slip of the entry: the check of self.clients left out
dispatch_to_llm_NoClientCheck(model_alias, max_retries) ==
    /\ dispatch_pc = "idle"
    /\ total_requests < MaxDispatches
    /\ total_requests' = total_requests + 1
    /\ call' = [model_alias |-> model_alias, max_retries |-> max_retries]
    /\ attempt' = 0
    /\ provider_calls' = <<>>
    /\ sleeps' = <<>>
    /\ IF model_alias \notin DOMAIN model_aliases
       THEN /\ failed_requests' = failed_requests + 1
            /\ response' = <<LLMResponse("error", "unknown", model_alias,
                                         "Unknown model alias: " \o model_alias)>>
            /\ dispatch_pc' = "returned"
       ELSE /\ failed_requests' = failed_requests
            /\ response' = <<>>
            /\ dispatch_pc' = IF max_retries <= 0 THEN "returned" ELSE "attempt"
    /\ UNCHANGED <<clients, successful_requests, engine_vars, thread_vars, parser_vars>>

\* dispatch_to_llm from its entry to the first provider call or an early return
dispatch_to_llm(model_alias, max_retries) ==
    /\ dispatch_pc = "idle"
    /\ total_requests < MaxDispatches
    /\ total_requests' = total_requests + 1
    /\ call' = [model_alias |-> model_alias, max_retries |-> max_retries]
    /\ attempt' = 0
    /\ provider_calls' = <<>>
    /\ sleeps' = <<>>
    /\ IF model_alias \notin DOMAIN model_aliases
       THEN /\ failed_requests' = failed_requests + 1
            /\ response' = <<LLMResponse("error", "unknown", model_alias,
                                         "Unknown model alias: " \o model_alias)>>
            /\ dispatch_pc' = "returned"
       ELSE LET provider   == model_aliases[model_alias][1]
                model_name == model_aliases[model_alias][2]
            IN  IF provider \notin clients
                THEN /\ failed_requests' = failed_requests + 1
                     /\ response' = <<LLMResponse("error", provider, model_name,
                                          "Provider " \o provider \o " not configured")>>
                     /\ dispatch_pc' = "returned"
                ELSE IF max_retries <= 0
                THEN \* range(max_retries) is empty: the function falls off its end
                     /\ failed_requests' = failed_requests
                     /\ response' = <<>>
                     /\ dispatch_pc' = "returned"
                ELSE /\ failed_requests' = failed_requests
                     /\ response' = <<>>
                     /\ dispatch_pc' = "attempt"
    /\ UNCHANGED <<clients, successful_requests, engine_vars, thread_vars, parser_vars>>

\* the iteration, were every failed attempt counted as a failed request
ProviderCall_CountsEveryFailure(outcome) ==
    /\ dispatch_pc = "attempt"
    /\ provider_calls' = Append(provider_calls, outcome)
    /\ LET provider   == model_aliases[call.model_alias][1]
           model_name == model_aliases[call.model_alias][2]
       IN  IF outcome = "success"
           THEN /\ successful_requests' = successful_requests + 1
                /\ response' = <<LLMResponse("success", provider, model_name, "")>>
                /\ dispatch_pc' = "returned"
                /\ UNCHANGED <<failed_requests, attempt, sleeps>>
           ELSE IF attempt = call.max_retries - 1
           THEN /\ failed_requests' = failed_requests + 1
                /\ response' = <<LLMResponse("error", provider, model_name,
                                             ErrorMessage(provider, outcome))>>
                /\ dispatch_pc' = "returned"
                /\ UNCHANGED <<successful_requests, attempt, sleeps>>
           ELSE /\ sleeps' = Append(sleeps, Backoff(attempt))
                /\ attempt' = attempt + 1
                /\ failed_requests' = failed_requests + 1
                /\ UNCHANGED <<successful_requests, response, dispatch_pc>>
    /\ UNCHANGED <<clients, total_requests, call, engine_vars, thread_vars, parser_vars>>

\* one iteration of the retry loop: the provider call and what follows it
ProviderCall(outcome) ==
    /\ dispatch_pc = "attempt"
    /\ provider_calls' = Append(provider_calls, outcome)
    /\ LET provider   == model_aliases[call.model_alias][1]
           model_name == model_aliases[call.model_alias][2]
       IN  IF outcome = "success"
           THEN /\ successful_requests' = successful_requests + 1
                /\ response' = <<LLMResponse("success", provider, model_name, "")>>
                /\ dispatch_pc' = "returned"
                /\ UNCHANGED <<failed_requests, attempt, sleeps>>
           ELSE IF attempt = call.max_retries - 1
           THEN /\ failed_requests' = failed_requests + 1
                /\ response' = <<LLMResponse("error", provider, model_name,
                                             ErrorMessage(provider, outcome))>>
                /\ dispatch_pc' = "returned"
                /\ UNCHANGED <<successful_requests, attempt, sleeps>>
           ELSE /\ sleeps' = Append(sleeps, Backoff(attempt))
                /\ attempt' = attempt + 1
                /\ UNCHANGED <<successful_requests, failed_requests, response, dispatch_pc>>
    /\ UNCHANGED <<clients, total_requests, call, engine_vars, thread_vars, parser_vars>>

\* the caller takes the returned value; the locals of the call are gone
DispatchReturn ==
    /\ dispatch_pc = "returned"
    /\ dispatch_pc' = "idle"
    /\ call' = NoCall
    /\ attempt' = 0
    /\ provider_calls' = <<>>
    /\ sleeps' = <<>>
    /\ response' = <<>>
    /\ UNCHANGED <<clients, total_requests, successful_requests, failed_requests,
                   engine_vars, thread_vars, parser_vars>>

\* the dispatcher used on its own: no wrapper and no pipeline activity
DispatchNext ==
    \/ /\ dispatch_pc = "idle"
       /\ \E model_alias \in ModelAliasArgs, max_retries \in 0..MaxRetries :
             dispatch_to_llm(model_alias, max_retries)
       /\ UNCHANGED <<wrapper_vars, app_vars>>
    \/ /\ \E outcome \in Outcomes : ProviderCall(outcome)
       /\ UNCHANGED <<wrapper_vars, app_vars>>
    \/ /\ DispatchReturn
       /\ UNCHANGED <<wrapper_vars, app_vars>>

---------------------------------------------------------------------------
(* The dispatcher shared by the request threads of the server              *)
(* (app.run(threaded=True), one module-level RAICompanion).  A statement   *)
(* "self.counter += 1" is a load of the attribute, an addition and a       *)
(* store, with no lock around them: another thread can run in between.     *)

Threads == 1..MaxThreads

\* the max_retries argument of the pipeline's dispatch_to_llm call
PipelineMaxRetries == 2

\* a thread outside dispatch_to_llm: pc, the counter value it loaded, its
\* loop variable, and the number of dispatch_to_llm calls it has made
ThreadIdle == [pc |-> "idle", loaded |-> 0, attempt |-> 0, calls |-> 0]

ThreadsInit == threads = [t \in Threads |-> ThreadIdle]

\* "self.total_requests += 1", the load
ThreadEnter(t) ==
    /\ threads[t].pc = "idle"
    /\ threads[t].calls < MaxDispatches
    /\ threads' = [threads EXCEPT ![t] = [pc |-> "store_total", loaded |-> total_requests,
                                          attempt |-> 0, calls |-> @.calls + 1]]
    /\ UNCHANGED <<total_requests, successful_requests, failed_requests>>

\* "self.total_requests += 1", the store; the alias of a validated request
\* resolves to a configured provider, so the retry loop is entered
ThreadStoreTotal(t) ==
    /\ threads[t].pc = "store_total"
    /\ total_requests' = threads[t].loaded + 1
    /\ threads' = [threads EXCEPT ![t].pc = "attempt"]
    /\ UNCHANGED <<successful_requests, failed_requests>>

\* one iteration of the retry loop, up to the load of the counter to add to
ThreadProviderCall(t, outcome) ==
    /\ threads[t].pc = "attempt"
    /\ IF outcome = "success"
       THEN threads' = [threads EXCEPT ![t].pc = "store_successful",
                                       ![t].loaded = successful_requests]
       ELSE IF threads[t].attempt = PipelineMaxRetries - 1
       THEN threads' = [threads EXCEPT ![t].pc = "store_failed",
                                       ![t].loaded = failed_requests]
       ELSE threads' = [threads EXCEPT ![t].attempt = @ + 1]
    /\ UNCHANGED <<total_requests, successful_requests, failed_requests>>

\* the store of "self.successful_requests += 1" or "self.failed_requests += 1",
\* and the return
ThreadReturn(t) ==
    /\ threads[t].pc \in {"store_successful", "store_failed"}
    /\ IF threads[t].pc = "store_successful"
       THEN /\ successful_requests' = threads[t].loaded + 1
            /\ UNCHANGED failed_requests
       ELSE /\ failed_requests' = threads[t].loaded + 1
            /\ UNCHANGED successful_requests
    /\ threads' = [threads EXCEPT ![t].pc = "idle", ![t].loaded = 0, ![t].attempt = 0]
    /\ UNCHANGED total_requests

ThreadNext ==
    /\ \E t \in Threads :
          \/ ThreadEnter(t)
          \/ ThreadStoreTotal(t)
          \/ \E outcome \in Outcomes : ThreadProviderCall(t, outcome)
          \/ ThreadReturn(t)
    /\ UNCHANGED <<clients, dispatch_pc, call, attempt, provider_calls, sleeps, response,
                   engine_vars, parser_vars, wrapper_vars, app_vars>>

---------------------------------------------------------------------------
(* RAIWrapper (rai_wrapper.py): input normalisation and classification.    *)

\* RAIWrapper._clean_input
_clean_input(raw_input) ==
    strip(CollapseRuns(CollapseRuns(CollapseRuns(raw_input, {"!"}, "!"), {"?"}, "?"),
                       WhitespaceChars, " "))

question_openers == {"what", "why", "how", "when", "where", "who"}
system_keywords == {"system", "power", "control", "government", "elite", "conspiracy"}
narrative_keywords == {"story", "narrative", "because", "therefore", "led to", "caused"}

\* re.search(r'\b(on|in|at|during)\s+\d{4}|\b(yesterday|today|recently)',
\*           input_text, re.IGNORECASE)
FactualPattern(input_text) ==
    LET text == lower(input_text)
        n    == Len(text)
    IN  \E i \in 1..n :
          /\ WordStart(text, i)
          /\ \/ \E w \in {"on", "in", "at", "during"} :
                  /\ StartsWith(SubSeq(text, i, n), w)
                  /\ LET rest == SubSeq(text, i + Len(w), n)
                         tail == SkipRun(rest, WhitespaceChars)
                     IN  /\ Len(tail) < Len(rest)
                         /\ Len(tail) >= 4
                         /\ \A k \in 1..4 : Char(tail, k) \in DigitChars
             \/ \E w \in {"yesterday", "today", "recently"} :
                  StartsWith(SubSeq(text, i, n), w)

\* the classification, were the system keywords looked up before the dates
_classify_input_SystemFirst(input_text) ==
    LET text == lower(input_text)
    IN  IF Contains(input_text, "?") \/ \E w \in question_openers : StartsWith(text, w)
        THEN "question"
        ELSE IF \E keyword \in system_keywords : Contains(text, keyword)
        THEN "system_premise"
        ELSE IF FactualPattern(input_text) THEN "factual_claim"
        ELSE IF \E keyword \in narrative_keywords : Contains(text, keyword)
        THEN "narrative"
        ELSE "mixed"

\* RAIWrapper._classify_input
_classify_input(input_text) ==
    LET text == lower(input_text)
    IN  IF Contains(input_text, "?") \/ \E w \in question_openers : StartsWith(text, w)
        THEN "question"
        ELSE IF FactualPattern(input_text) THEN "factual_claim"
        ELSE IF \E keyword \in system_keywords : Contains(text, keyword)
        THEN "system_premise"
        ELSE IF \E keyword \in narrative_keywords : Contains(text, keyword)
        THEN "narrative"
        ELSE "mixed"

OutputMode == {"brief", "analytical", "synthesis"}

\* the RAIInput fields the pipeline and the prompt read: raw_input,
\* cleaned_input and input_type
\* RAIWrapper._normalize_input
_normalize_input(raw_input) ==
    LET cleaned == _clean_input(raw_input)
    IN  [raw_input |-> raw_input, cleaned_input |-> cleaned,
         input_type |-> _classify_input(cleaned)]

\* the dict RAIWrapper.process_input returns (a dict is a record: "k in d" is
\* k \in DOMAIN d; the values no modelled code reads are named, not built).
\* OutputMode(...) in _build_analysis_config raises ValueError on a
\* default_output_mode that is not a member of the enum, and the except
\* clause returns {"error": str(e)}
ProcessInputResult(user_input, output_mode) ==
    IF output_mode \notin OutputMode
    THEN [error |-> "'" \o output_mode \o "' is not a valid OutputMode"]
    ELSE [rai_input |-> _normalize_input(user_input), config |-> "RAIConfig",
          premises |-> "premises", modules |-> "modules", prompt |-> "prompt",
          metadata |-> "metadata"]

\* the values of "default_output_mode" in config.json tried: absent (the
\* default "brief"), and the name of the pipeline's default mode, "full"
OutputModeConfigs == {"brief", "full"}

\* the phrases the input texts are made of
Phrases == {"Why", "is it so?", "in 2024", "Yesterday", "the government", "because",
            "rain fell", "reports confirmed", "On March 15, 2024,"}

RECURSIVE TextsOf(_)
\* the texts of at most n phrases, joined by single spaces
TextsOf(n) ==
    IF n = 0 THEN {""}
    ELSE LET shorter == TextsOf(n - 1)
         IN  shorter \cup {IF t = "" THEN p ELSE t \o " " \o p : t \in shorter, p \in Phrases}

FactualDispute ==
    "On March 15, 2024, reports confirmed that 50 civilians were killed in Mariupol bombing"

DeepState ==
    "The deep state controls government policy through unelected bureaucrats and corporate influence"

Texts == TextsOf(MaxPhrases) \cup {"   ", FactualDispute, FactualDispute \o ".", DeepState}

\* RAIWrapper.__init__
RAIWrapperInit ==
    /\ default_output_mode \in OutputModeConfigs
    /\ wrapper_pc = "idle"
    /\ wrapper_input = ""
    /\ wrapper_result = <<>>

\* RAIWrapper.process_input
process_input(user_input) ==
    /\ wrapper_pc = "idle"
    /\ wrapper_pc' = "returned"
    /\ wrapper_input' = user_input
    /\ wrapper_result' = <<ProcessInputResult(user_input, default_output_mode)>>
    /\ UNCHANGED <<default_output_mode, engine_vars, thread_vars, parser_vars, dispatch_vars, app_vars>>

\* the caller consumes the dict; the wrapper keeps nothing of the call
WrapperDiscard ==
    /\ wrapper_pc = "returned"
    /\ wrapper_pc' = "idle"
    /\ wrapper_input' = ""
    /\ wrapper_result' = <<>>
    /\ UNCHANGED <<default_output_mode, engine_vars, thread_vars, parser_vars, dispatch_vars, app_vars>>

WrapperNext ==
    \/ /\ wrapper_pc = "idle"
       /\ \E user_input \in Texts : process_input(user_input)
    \/ WrapperDiscard

---------------------------------------------------------------------------
(* RAICompanion (app.py): the analysis pipeline behind analyze.            *)

\* "max_input_length" of the default configuration
max_input_length == 10000

Ten(s) == s \o s \o s \o s \o s \o s \o s \o s \o s \o s

\* an input of max_input_length + 1 characters
LongInput == Ten(Ten(Ten("xxxxxxxxxx"))) \o "x"

\* the user_input fields tried: missing, blank, short, too long, and two
\* texts that pass the validation
UserInputs == {"", "   ", "Too short", LongInput, DeepState, FactualDispute}

\* the model fields tried: missing, the front-end names, an alias, an unknown name
SelectedLLMs == {"", "gpt", "deepseek", "gpt-4", "llama-3"}

\* the mode fields tried
AnalysisModeArgs == {"guided", "full", "turbo"}

valid_modes == {"quick", "guided", "expert", "full"}

config_models == {"gpt", "gemini", "deepseek"}

\* APIDispatcher.get_available_models
get_available_models ==
    {alias \in DOMAIN model_aliases : model_aliases[alias][1] \in clients}

\* RAICompanion.get_available_models (its keys)
available_models == IF components_loaded THEN get_available_models ELSE config_models

model_mapping(selected_llm) ==
    CASE selected_llm = "gpt"      -> "gpt-4"
      [] selected_llm = "gemini"   -> "gemini-pro"
      [] selected_llm = "deepseek" -> "deepseek-chat"
      [] OTHER                     -> selected_llm

\* a slip of the validation: the check of the model left out
ValidationError_NoModelCheck(user_input, selected_llm, mode) ==
    IF Len(user_input) > max_input_length THEN "Input too long."
    ELSE IF Len(strip(user_input)) < 10 THEN "Input too short."
    ELSE IF mode \notin valid_modes THEN "Invalid analysis mode."
    ELSE ""

\* the "error" of the dict RAICompanion._validate_input returns, "" when valid
ValidationError(user_input, selected_llm, mode) ==
    IF Len(user_input) > max_input_length THEN "Input too long."
    ELSE IF Len(strip(user_input)) < 10 THEN "Input too short."
    ELSE IF selected_llm \notin available_models
    THEN "Model '" \o selected_llm \o "' not available."
    ELSE IF mode \notin valid_modes THEN "Invalid analysis mode."
    ELSE ""

ErrorResult(error_type, error) ==
    [status |-> "error", error_type |-> error_type, error |-> error, formatted_by |-> ""]

SuccessResult(formatted_by) ==
    [status |-> "success", error_type |-> "", error |-> "", formatted_by |-> formatted_by]

\* RAICompanion._create_fallback_input
_create_fallback_input(user_input) ==
    [raw_input |-> user_input, cleaned_input |-> strip(user_input), input_type |-> "mixed"]

mode_descriptions(mode) ==
    CASE mode = "quick"  -> "Brief analysis focusing on key insights"
      [] mode = "guided" -> "Structured analysis with clear explanations"
      [] mode = "expert" -> "Comprehensive analysis with detailed reasoning"
      [] mode = "full"   -> "Complete analysis across all levels"
      [] OTHER           -> "Standard analysis"

\* the prompt_parts of RAICompanion._build_complete_prompt, before the join.
\* formatted_premises and formatted_modules are there when the components
\* are loaded; their text is named, not built
PromptParts(rai, mode) ==
       <<"You are operating under the **Real Artificial Intelligence (RAI) Framework**.">>
    \o <<"**Analysis Mode:** " \o title(mode) \o " - " \o mode_descriptions(mode)>>
    \o (IF components_loaded THEN <<"**RELEVANT MACRO PREMISES:**">> ELSE <<>>)
    \o (IF components_loaded THEN <<"**SELECTED RAI MODULES FOR EXECUTION:**">> ELSE <<>>)
    \o (IF "input" \in DOMAIN rai
        THEN <<"**Input Analysis:** - Original Input: \"" \o rai.input.raw_input
               \o "\" - Input Type: " \o rai.input.input_type>>
        ELSE <<>>)
    \o <<"**Analysis Instructions:**">>

\* the prompt of the except clause of _build_complete_prompt
FallbackPrompt(rai) ==
    <<"Analyze the following input using structured reasoning across fact, narrative, and system levels:",
      "\"" \o (IF "input" \in DOMAIN rai THEN rai.input.raw_input
               ELSE "Input processing failed") \o "\"",
      "Please provide: 1. Factual analysis 2. Narrative analysis 3. Systemic analysis 4. Final synthesis">>

\* RAICompanion.__init__: the components load, or the except clause runs
RAICompanionInit ==
    /\ components_loaded \in BOOLEAN
    /\ app_pc = "idle"
    /\ request = [user_input |-> "", selected_llm |-> "", analysis_mode |-> ""]
    /\ stages = <<>>
    /\ rai_result = <<>>
    /\ complete_prompt = <<>>
    /\ result = <<>>

\* the request ends at this step with the dict r
Return(r) ==
    /\ result' = <<r>>
    /\ app_pc' = "done"

\* the request enters the step named stage
Enter(stage) == stages' = Append(stages, stage)

\* analyze, up to the call of process_analysis_request
analyze(user_input, selected_llm, mode) ==
    /\ app_pc = "idle"
    /\ total_requests < MaxDispatches
    /\ request' = [user_input |-> user_input, selected_llm |-> selected_llm,
                   analysis_mode |-> mode]
    /\ stages' = <<>>
    /\ IF user_input = "" \/ selected_llm = ""
       THEN Return(ErrorResult("validation", "Missing required fields"))
       ELSE /\ app_pc' = "validate"
            /\ result' = <<>>
    /\ UNCHANGED <<components_loaded, rai_result, complete_prompt,
                   engine_vars, thread_vars, parser_vars, dispatch_vars, wrapper_vars>>

\* a slip of the step: a rejected input is classified all the same
_validate_input_Continues ==
    /\ app_pc = "validate"
    /\ Enter("validate")
    /\ app_pc' = "classify"
    /\ result' = <<>>
    /\ UNCHANGED <<components_loaded, request, rai_result, complete_prompt,
                   engine_vars, thread_vars, parser_vars, dispatch_vars, wrapper_vars>>

\* process_analysis_request: input validation
_validate_input ==
    /\ app_pc = "validate"
    /\ Enter("validate")
    /\ LET error == ValidationError(request.user_input, request.selected_llm,
                                    request.analysis_mode)
       IN  IF error # ""
           THEN Return(ErrorResult("validation", error))
           ELSE /\ app_pc' = "classify"
                /\ result' = <<>>
    /\ UNCHANGED <<components_loaded, request, rai_result, complete_prompt,
                   engine_vars, thread_vars, parser_vars, dispatch_vars, wrapper_vars>>

\* process_analysis_request, step 1: RAICompanion._process_input_wrapper
_process_input_wrapper ==
    /\ app_pc = "classify"
    /\ Enter("classify")
    /\ IF ~components_loaded
       THEN /\ rai_result' = <<[rai_input |-> _create_fallback_input(request.user_input),
                                config |-> "config", prompt |-> "prompt"]>>
            /\ app_pc' = "premises"
            /\ result' = <<>>
       ELSE LET r == ProcessInputResult(request.user_input, default_output_mode)
            IN  IF "error" \in DOMAIN r
                THEN /\ rai_result' = <<[status |-> "error",
                                         error |-> "Input processing failed: " \o r.error,
                                         error_type |-> "input_processing"]>>
                     /\ Return(ErrorResult("input_processing",
                                           "Input processing failed: " \o r.error))
                ELSE /\ rai_result' = <<r>>
                     /\ app_pc' = "premises"
                     /\ result' = <<>>
    /\ UNCHANGED <<components_loaded, request, complete_prompt,
                   engine_vars, thread_vars, parser_vars, dispatch_vars, wrapper_vars>>

\* process_analysis_request, step 2: RAICompanion._select_premises.  The
\* premise engine is not modelled: its calls return, or one of them raises
_select_premises(raises) ==
    /\ app_pc = "premises"
    /\ Enter("premises")
    /\ IF components_loaded /\ raises
       THEN Return(ErrorResult("premise_selection", "Premise selection failed"))
       ELSE /\ app_pc' = "modules"
            /\ result' = <<>>
    /\ UNCHANGED <<components_loaded, request, rai_result, complete_prompt,
                   engine_vars, thread_vars, parser_vars, dispatch_vars, wrapper_vars>>

\* process_analysis_request, step 3: RAICompanion._select_modules.  The
\* module selector is not modelled: its calls return, or one of them raises
_select_modules(raises) ==
    /\ app_pc = "modules"
    /\ Enter("modules")
    /\ IF components_loaded /\ raises
       THEN Return(ErrorResult("module_selection", "Module selection failed"))
       ELSE /\ app_pc' = "compose"
            /\ result' = <<>>
    /\ UNCHANGED <<components_loaded, request, rai_result, complete_prompt,
                   engine_vars, thread_vars, parser_vars, dispatch_vars, wrapper_vars>>

\* process_analysis_request, step 4: RAICompanion._build_complete_prompt
_build_complete_prompt(raises) ==
    /\ app_pc = "compose"
    /\ Enter("compose")
    /\ complete_prompt' = IF raises THEN FallbackPrompt(rai_result[1])
                          ELSE PromptParts(rai_result[1], request.analysis_mode)
    /\ app_pc' = "dispatch"
    /\ UNCHANGED <<components_loaded, request, rai_result, result,
                   engine_vars, thread_vars, parser_vars, dispatch_vars, wrapper_vars>>

\* process_analysis_request, step 5: RAICompanion._dispatch_to_llm, up to
\* the call of APIDispatcher.dispatch_to_llm with max_retries=2
_dispatch_to_llm ==
    /\ app_pc = "dispatch"
    /\ Enter("dispatch")
    /\ IF ~components_loaded
       THEN /\ Return(ErrorResult("dispatcher_unavailable",
                                  "LLM dispatcher unavailable - running in demo mode"))
            /\ UNCHANGED dispatch_vars
       ELSE /\ dispatch_to_llm(model_mapping(request.selected_llm), 2)
            /\ app_pc' = "llm"
            /\ result' = <<>>
    /\ UNCHANGED <<components_loaded, request, rai_result, complete_prompt,
                   engine_vars, thread_vars, parser_vars, wrapper_vars>>

\* an iteration of the dispatcher's retry loop, inside the request
LLMAttempt(outcome) ==
    /\ app_pc = "llm"
    /\ ProviderCall(outcome)
    /\ UNCHANGED <<app_vars, wrapper_vars>>

\* a slip of the step: the status of the response is not looked at
_dispatch_to_llm_Return_NoStatusCheck ==
    /\ app_pc = "llm"
    /\ DispatchReturn
    /\ app_pc' = "format"
    /\ result' = <<>>
    /\ UNCHANGED <<components_loaded, request, stages, rai_result, complete_prompt,
                   wrapper_vars>>

\* RAICompanion._dispatch_to_llm, from the return of dispatch_to_llm, and
\* the check of its result in process_analysis_request
_dispatch_to_llm_Return ==
    /\ app_pc = "llm"
    /\ DispatchReturn
    /\ IF response[1].status # "success"
       THEN Return(ErrorResult("llm_error",
                               "LLM request failed: " \o response[1].error_message))
       ELSE /\ app_pc' = "format"
            /\ result' = <<>>
    /\ UNCHANGED <<components_loaded, request, stages, rai_result, complete_prompt,
                   wrapper_vars>>

\* a slip of the step: an exception of the parser ends the request
_parse_output_Surfaces(raises) ==
    /\ app_pc = "format"
    /\ Enter("format")
    /\ Return(IF raises THEN ErrorResult("processing", "Processing failed")
              ELSE SuccessResult("output_parser"))
    /\ UNCHANGED <<components_loaded, request, rai_result, complete_prompt,
                   engine_vars, thread_vars, parser_vars, dispatch_vars, wrapper_vars>>

\* process_analysis_request, steps 6 and 7: RAICompanion._parse_output and
\* the success dict.  The output parser is not modelled: it returns, or it
\* raises and _fallback_parse_output formats the content
_parse_output(raises) ==
    /\ app_pc = "format"
    /\ Enter("format")
    /\ Return(SuccessResult(IF raises THEN "_fallback_parse_output" ELSE "output_parser"))
    /\ UNCHANGED <<components_loaded, request, rai_result, complete_prompt,
                   engine_vars, thread_vars, parser_vars, dispatch_vars, wrapper_vars>>

\* analyze returns jsonify(result); nothing of the request is kept
Respond ==
    /\ app_pc = "done"
    /\ app_pc' = "idle"
    /\ request' = [user_input |-> "", selected_llm |-> "", analysis_mode |-> ""]
    /\ stages' = <<>>
    /\ rai_result' = <<>>
    /\ complete_prompt' = <<>>
    /\ result' = <<>>
    /\ UNCHANGED <<components_loaded, engine_vars, thread_vars, parser_vars, dispatch_vars, wrapper_vars>>

AppNext ==
    \/ /\ app_pc = "idle"
       /\ \E user_input \in UserInputs, selected_llm \in SelectedLLMs,
             mode \in AnalysisModeArgs : analyze(user_input, selected_llm, mode)
    \/ _validate_input
    \/ _process_input_wrapper
    \/ \E raises \in BOOLEAN : _select_premises(raises)
    \/ \E raises \in BOOLEAN : _select_modules(raises)
    \/ \E raises \in BOOLEAN : _build_complete_prompt(raises)
    \/ _dispatch_to_llm
    \/ \E outcome \in Outcomes : LLMAttempt(outcome)
    \/ _dispatch_to_llm_Return
    \/ \E raises \in BOOLEAN : _parse_output(raises)
    \/ Respond

---------------------------------------------------------------------------
(* RAIOutputParser (output_parser_v2.py): LLM markdown to display HTML.    *)
(* An HTML text is the sequence of its elements, an element the sequence   *)
(* of the fragments its f-string concatenates: <<open tag, text, close     *)
(* tag>>, or the one tag of a container's opening or closing.              *)

\* s with its trailing run of characters of chars removed
DropRun(s, chars) ==
    IF \A i \in 1..Len(s) : Char(s, i) \in chars THEN ""
    ELSE SubSeq(s, 1, CHOOSE i \in 1..Len(s) : /\ Char(s, i) \notin chars
                                              /\ \A j \in (i + 1)..Len(s) : Char(s, j) \in chars)

\* s.strip(chars)
StripChars(s, chars) == DropRun(SkipRun(s, chars), chars)

\* s.find(sub), counted from 1; 0 when absent
Find(s, sub) ==
    IF ~Contains(s, sub) THEN 0
    ELSE CHOOSE i \in 1..Len(s) :
            /\ SubSeq(s, i, i + Len(sub) - 1) = sub
            /\ \A j \in 1..(i - 1) : SubSeq(s, j, j + Len(sub) - 1) # sub

RECURSIVE split(_, _)
\* s.split(sep)
split(s, sep) ==
    IF ~Contains(s, sep) THEN <<s>>
    ELSE LET i == Find(s, sep)
         IN  <<SubSeq(s, 1, i - 1)>> \o split(SubSeq(s, i + Len(sep), Len(s)), sep)

RECURSIVE replace(_, _, _)
\* s.replace(old, new)
replace(s, old, new) ==
    IF ~Contains(s, old) THEN s
    ELSE LET i == Find(s, old)
         IN  SubSeq(s, 1, i - 1) \o new \o replace(SubSeq(s, i + Len(old), Len(s)), old, new)

\* s from its first occurrence of sub on, "" when absent
From(s, sub) == IF ~Contains(s, sub) THEN "" ELSE SubSeq(s, Find(s, sub), Len(s))

\* a match of  d([^c]+)d  begins at position i of text
MatchesAt(text, i, d, c) ==
    /\ StartsWith(SubSeq(text, i, Len(text)), d)
    /\ LET rest == SubSeq(text, i + Len(d), Len(text))
           tail == From(rest, c)
       IN  Len(tail) < Len(rest) /\ StartsWith(tail, d)

RECURSIVE Sub(_, _, _, _, _)
\* re.sub of  d([^c]+)d  by  open group close: the matches left to right, the
\* greedy run of non-c characters being the only one a closing d can follow
Sub(text, d, c, open, close) ==
    IF ~\E i \in 1..Len(text) : MatchesAt(text, i, d, c) THEN text
    ELSE LET i == CHOOSE k \in 1..Len(text) :
                     /\ MatchesAt(text, k, d, c)
                     /\ \A j \in 1..(k - 1) : ~MatchesAt(text, j, d, c)
             rest == SubSeq(text, i + Len(d), Len(text))
             tail == From(rest, c)
         IN  SubSeq(text, 1, i - 1) \o open \o SubSeq(rest, 1, Len(rest) - Len(tail)) \o close
                \o Sub(SubSeq(tail, Len(d) + 1, Len(tail)), d, c, open, close)

\* RAIOutputParser._format_text: the bold substitution, then the italic
\* one. The third, for code spans, matches between two backquotes, a
\* character outside the alphabet of the lines modelled, and changes none
\* of them.
_format_text(text) ==
    LET bold == Sub(text, "**", "*", "<strong>", "</strong>")
    IN  Sub(bold, "*", "*", "<em>", "</em>")

\* the bullet pattern of _format_line: a bullet character, then whitespace;
\* the pattern's fourth bullet character lies outside the alphabet of the
\* lines modelled
IsBulletLine(line) ==
    /\ Len(line) >= 2
    /\ Char(line, 1) \in {"-", "*", "+"}
    /\ Char(line, 2) \in WhitespaceChars

\* the numbered pattern of _format_line: digits, a period, then whitespace
IsNumberedLine(line) ==
    LET rest == SkipRun(line, DigitChars)
    IN  /\ Len(rest) < Len(line)
        /\ Len(rest) >= 2
        /\ Char(rest, 1) = "."
        /\ Char(rest, 2) \in WhitespaceChars

\* the element an f-string of _format_line builds
Element(open, text, close) == <<open, text, close>>

\* RAIOutputParser._format_line: the elements the line becomes, none for a
\* blank line. The emoji test needs a character outside the alphabet of
\* the lines modelled and is false on each of them.
_format_line(line) ==
    LET l == strip(line)
    IN  IF l = "" THEN <<>>
        ELSE IF StartsWith(l, "###")
        THEN <<Element("<h3 class=\"rai-heading\">",
                       _format_text(strip(replace(l, "###", ""))), "</h3>\n")>>
        ELSE IF StartsWith(l, "##")
        THEN <<Element("<h2 class=\"rai-section-title\">",
                       _format_text(strip(replace(l, "##", ""))), "</h2>\n")>>
        ELSE IF StartsWith(l, "#")
        THEN <<Element("<h1 class=\"rai-main-title\">",
                       _format_text(strip(replace(l, "#", ""))), "</h1>\n")>>
        ELSE IF IsBulletLine(l)
        THEN <<Element("<li class=\"rai-bullet-item\">",
                       _format_text(lstrip(SubSeq(l, 2, Len(l)))), "</li>\n")>>
        ELSE IF IsNumberedLine(l)
        THEN <<Element("<li class=\"rai-numbered-item\">",
                       _format_text(lstrip(SubSeq(SkipRun(l, DigitChars), 2,
                                                  Len(SkipRun(l, DigitChars))))), "</li>\n")>>
        ELSE IF StartsWith(l, "**") /\ SubSeq(l, Len(l) - 1, Len(l)) = "**"
        THEN <<Element("<h4 class=\"rai-subheading\">",
                       _format_text(strip(StripChars(l, {"*"}))), "</h4>\n")>>
        ELSE IF StartsWith(l, ">")
        THEN <<Element("<blockquote class=\"rai-quote\">",
                       _format_text(strip(SubSeq(l, 2, Len(l)))), "</blockquote>\n")>>
        ELSE <<Element("<p class=\"rai-paragraph\">", _format_text(l), "</p>\n")>>

RECURSIVE FormattedLines(_)
\* the loop of _format_content: the non-empty results, in line order
FormattedLines(lines) ==
    IF lines = <<>> THEN <<>>
    ELSE _format_line(Head(lines)) \o FormattedLines(Tail(lines))

\* the text of the container's f-string before and after its content
ContainerOpen == <<"\n        <div class=\"rai-analysis-container\">\n            ">>
ContainerClose == <<"\n        </div>\n        ">>

\* a _format_content that also skips the elements left with no text
_format_content_SkipsEmptyElements(content) ==
    <<ContainerOpen>>
       \o SelectSeq(FormattedLines(split(content, "\n")), LAMBDA e : e[2] # "")
       \o <<ContainerClose>>

\* RAIOutputParser._format_content
_format_content(content) ==
    <<ContainerOpen>> \o FormattedLines(split(content, "\n")) \o <<ContainerClose>>

\* str(content) of the fallback's f-string; an absent response is None
Str(content) == IF content = <<>> THEN "None" ELSE content[1]

\* RAIOutputParser._fallback_parse
_fallback_parse(content) ==
    [input_summary |-> "Analysis completed",
     html_content |-> <<ContainerOpen,
                        <<"<div class=\"rai-raw-content\">\n                ">>,
                        <<"<pre>", Str(content), "</pre>">>,
                        <<"\n            </div>">>,
                        ContainerClose>>,
     sections_count |-> 1]

\* the metadata argument: absent, a dictionary, or a truthy value of
\* another type
MetadataKinds == {"None", "dict", "str"}

\* the try block of parse_llm_response raises: None has no split, and a
\* truthy metadata that is no dictionary has no get
ParseRaises(args) == args.raw_response = <<>> \/ args.metadata = "str"

\* the lines a modelled response is made of
SampleLines ==
    {"", "  ", "### Findings", "# Issue #42", "- first point", "* second point",
     "12. Bureaucratic influence", "**Key Findings:**", "> Follow the gain",
     "Plain text.", "  a **bold** and *soft* word ", "-no space", "**"}

\* the responses of at most MaxLines lines
RawResponses ==
    UNION {{Concat([i \in 1..n |-> IF i = 1 THEN ls[i] ELSE "\n" \o ls[i]], 1, n) :
               ls \in [1..n -> SampleLines]} : n \in 1..MaxLines}

ParserInit ==
    /\ parser_pc = "idle"
    /\ parser_args = [raw_response |-> <<>>, metadata |-> "None"]
    /\ parsed_result = <<>>

\* RAIOutputParser.parse_llm_response. input_summary and sections_count of
\* a formatted result are named, not computed: no property here reads them.
parse_llm_response(raw_response, metadata) ==
    /\ parser_pc = "idle"
    /\ parser_pc' = "returned"
    /\ parser_args' = [raw_response |-> raw_response, metadata |-> metadata]
    /\ parsed_result' =
          <<IF ParseRaises(parser_args')
            THEN _fallback_parse(raw_response)
            ELSE [input_summary |-> "_extract_summary",
                  html_content |-> _format_content(raw_response[1]),
                  sections_count |-> "_count_sections"]>>
    /\ UNCHANGED <<engine_vars, dispatch_vars, thread_vars, wrapper_vars, app_vars>>

\* the caller takes the result; the parser keeps nothing of the call
ParserDiscard ==
    /\ parser_pc = "returned"
    /\ parser_pc' = "idle"
    /\ parser_args' = [raw_response |-> <<>>, metadata |-> "None"]
    /\ parsed_result' = <<>>
    /\ UNCHANGED <<engine_vars, dispatch_vars, thread_vars, wrapper_vars, app_vars>>

ParserNext ==
    \/ \E raw_response \in {<<>>} \cup {<<r>> : r \in RawResponses}, metadata \in MetadataKinds :
          parse_llm_response(raw_response, metadata)
    \/ ParserDiscard

---------------------------------------------------------------------------
(* Specifications.                                                         *)

Init == EngineInit /\ DispatcherInit /\ ThreadsInit /\ ParserInit /\ RAIWrapperInit /\ RAICompanionInit

\* the components beside the one under study, in one configuration
Loaded == components_loaded /\ default_output_mode = "brief"

\* an engine with no dispatcher beside it configured
InitEngine == Init /\ clients = {} /\ Loaded

\* a dispatcher in each configuration of its clients
InitDispatch == Init /\ Loaded

\* a wrapper in each configuration of its output mode
InitWrapper == Init /\ clients = {} /\ components_loaded

\* a dispatcher with every provider configured, used by the request threads
InitThreads == Init /\ clients = LLMProvider /\ Loaded

Next == EngineNext \/ OrderingNext \/ DispatchNext \/ ThreadNext \/ ParserNext \/ WrapperNext \/ AppNext

Spec == Init /\ [][Next]_vars

\* the selection engine alone: no dispatcher activity
SpecEngine == InitEngine /\ [][EngineNext]_vars
SpecOrdering == InitEngine /\ [][OrderingNext]_vars

\* the dispatcher alone: no selection activity
SpecDispatch == InitDispatch /\ [][DispatchNext]_vars

\* the dispatcher under the request threads of the threaded server
SpecThreads == InitThreads /\ [][ThreadNext]_vars

\* the output parser alone: parse_llm_response called directly
SpecParser == InitEngine /\ [][ParserNext]_vars

\* the wrapper alone: process_input called directly
SpecWrapper == InitWrapper /\ [][WrapperNext]_vars

\* the pipeline: requests through analyze, with the dispatcher it drives
SpecApp == Init /\ [][AppNext]_vars

---------------------------------------------------------------------------
(* Properties of the selection engine, checked under SpecEngine.           *)

\* the module ids of the components of the returned Selection
SelectedIds == ComponentIds(selection.components)

Range(s) == {s[i] : i \in 1..Len(s)}

NoDuplicates(s) == \A i, j \in 1..Len(s) : s[i] = s[j] => i = j

LevelsOf(ids) == {ids[i][1] : i \in 1..Len(ids)}

\* the input has None in an int field: a step of the selection raises on it
Malformed(input) == input.complexity_score = None \/ input.emotional_charge = None

\* "simple" as the spec words it: complexity <= 2, emotional_charge <= 2, no
\* topic hints, category factual-claim
SimpleFactualClaim(input) ==
    /\ input.complexity_score \in {1, 2}
    /\ input.emotional_charge \in {1, 2}
    /\ input.detected_topics = <<>>
    /\ input.input_type = "factual_claim"

FallbackRationale == <<"Fallback selection due to processing error">>

LibraryPremises ==
    UNION {PREMISE_LIBRARY.dimensions[d].premises : d \in DOMAIN PREMISE_LIBRARY.dimensions}

\* the ids of the resolved premises attached to the components of the Selection
ResolvedPremiseIds ==
    UNION {{selection.components[i].anchored_premises[j].id :
                j \in 1..Len(selection.components[i].anchored_premises)} :
           i \in 1..Len(selection.components)}

\* C1: whatever the input and the mode, and on the fallback path too, the
\* returned execution_order holds every selected module id exactly once and
\* no other id: it is a permutation of the ids of the selected components.
C1_ExecutionOrderIsPermutation ==
    engine_pc = "returned" =>
        /\ Len(selection.execution_order) = Len(SelectedIds)
        /\ NoDuplicates(selection.execution_order)
        /\ NoDuplicates(SelectedIds)
        /\ Range(selection.execution_order) = Range(SelectedIds)

\* a main-path Selection of ten modules whose order differs from the order
\* in which the modules were selected
C1_Witness ==
    /\ engine_pc = "returned"
    /\ selection.selection_rationale # FallbackRationale
    /\ Len(SelectedIds) >= 10
    /\ selection.execution_order # SelectedIds

\* C2: the number of selected modules never exceeds the max_modules argument.
\* The code never reads max_modules: this statement is violated.
C2_SelectedWithinMaxModules ==
    engine_pc = "returned" => selection.total_modules <= max_modules

\* C3 as stated: in guided or expert mode the selected modules always cover
\* the fact, narrative and system levels.
C3_CoverageInGuidedAndExpert ==
    (engine_pc = "returned" /\ analysis_mode \in {"guided", "expert"}) =>
        {"FL", "NL", "SL"} \subseteq LevelsOf(SelectedIds)

\* C3 amended: in every mode the selected modules cover the fact, narrative
\* and system levels unless the input is a simple factual claim; for a simple
\* factual claim, in quick, guided and expert mode alike, the system level
\* is missing (fact and narrative are present).
C3_CoverageUnlessSimple ==
    engine_pc = "returned" =>
        IF ~Malformed(rai_input) /\ SimpleFactualClaim(rai_input)
        THEN LevelsOf(SelectedIds) = {"CL", "FL", "NL"}
        ELSE {"FL", "NL", "SL"} \subseteq LevelsOf(SelectedIds)

\* a simple factual claim selected in guided mode, without a system module
C3_Witness ==
    /\ engine_pc = "returned"
    /\ analysis_mode = "guided"
    /\ SimpleFactualClaim(rai_input)
    /\ "SL" \notin LevelsOf(SelectedIds)

\* the pool was cut: the selected ids are the first 6 of a longer pool
Truncated ==
    /\ Len(CandidatePool(rai_input)) > 6
    /\ SelectedIds = SubSeq(CandidatePool(rai_input), 1, 6)

\* C4 as stated: the pool is truncated to its first 6 entries if and only if
\* the mode is quick and the input is simple; otherwise the full pool is kept.
C4_TruncatedIffQuickAndSimple ==
    (engine_pc = "returned" /\ ~Malformed(rai_input)) =>
        IF analysis_mode = "quick" /\ SimpleFactualClaim(rai_input)
        THEN Truncated
        ELSE SelectedIds = CandidatePool(rai_input)

\* C4 amended: the pool is truncated to its first 6 entries (insertion order)
\* if and only if the input is simple, in quick, guided and expert mode alike;
\* for a non-simple input the full pool is kept in every mode.
C4_TruncatedIffSimple ==
    (engine_pc = "returned" /\ ~Malformed(rai_input)) =>
        IF SimpleFactualClaim(rai_input)
        THEN Truncated
        ELSE SelectedIds = CandidatePool(rai_input)

\* a simple factual claim in expert mode whose 7-entry pool was cut to 6
C4_Witness ==
    /\ engine_pc = "returned"
    /\ analysis_mode = "expert"
    /\ SimpleFactualClaim(rai_input)
    /\ Len(CandidatePool(rai_input)) = 7
    /\ Len(SelectedIds) = 6

\* C5: the Selection is never empty and always contains the input
\* normalization module CL-0, after truncation and on the fallback path too.
C5_NeverEmptyAndHasCL0 ==
    engine_pc = "returned" =>
        /\ selection.total_modules > 0
        /\ In(CL(0), SelectedIds)
        /\ In(CL(0), selection.execution_order)

\* a truncated Selection that still holds CL-0
C5_Witness ==
    /\ engine_pc = "returned"
    /\ ~Malformed(rai_input)
    /\ Len(SelectedIds) < Len(CandidatePool(rai_input))
    /\ In(CL(0), SelectedIds)

\* C6: every resolved (anchored) premise of a selected module is a premise of
\* the premise library; D1.4, anchored by CL-0 and CL-2 and absent from the
\* library, is dropped without failing the selection and is never among the
\* resolved premises.
C6_ResolvedPremisesExist ==
    engine_pc = "returned" =>
        /\ ResolvedPremiseIds \subseteq LibraryPremises
        /\ D(1, 4) \notin ResolvedPremiseIds
        /\ ~Malformed(rai_input) =>
              /\ selection.selection_rationale # FallbackRationale
              /\ \A i \in 1..Len(selection.components) :
                    selection.components[i].module_id \in {CL(0), CL(2)} =>
                        /\ In(D(1, 4), selection.components[i].philosophical_anchoring)
                        /\ Len(selection.components[i].anchored_premises) = 2

\* a main-path Selection holding both CL-0 and CL-2, which anchor D1.4
C6_Witness ==
    /\ engine_pc = "returned"
    /\ selection.selection_rationale # FallbackRationale
    /\ In(CL(0), SelectedIds)
    /\ In(CL(2), SelectedIds)
    /\ selection.total_premises > 0

---------------------------------------------------------------------------
(* Properties of the dispatcher, checked under SpecDispatch.               *)

\* the call in progress resolved its alias to a configured provider
ConfiguredCall ==
    /\ call.model_alias \in DOMAIN model_aliases
    /\ model_aliases[call.model_alias][1] \in clients

\* the failed provider calls of the call in progress, by position
FailedCalls == {i \in 1..Len(provider_calls) : provider_calls[i] # "success"}

\* C8: a further provider call is made only after a Timeout or Transient
\* failure: a RateLimited or AuthFailed failure is never followed by another
\* provider call.  The retry loop catches every Exception alike: this
\* statement is violated.
C8_RetryOnlyTimeoutOrTransient ==
    \A i \in 1..Len(provider_calls) :
        i < Len(provider_calls) => provider_calls[i] \in {"Timeout", "Transient"}

\* C9: for every max_retries >= 0 and a configured provider, the call makes
\* at most max_retries provider calls, and once it has returned with every
\* attempt failed it has returned a response of status error carrying the
\* message of the last failure.  With max_retries = 0 the function returns
\* None: this statement is violated.
C9_TerminalFailureResponse ==
    /\ Len(provider_calls) <= call.max_retries
    /\ (dispatch_pc = "returned" /\ ConfiguredCall /\ FailedCalls = 1..Len(provider_calls)) =>
          /\ response # <<>>
          /\ response[1].status = "error"
          /\ response[1].error_message =
                ErrorMessage(model_aliases[call.model_alias][1],
                             provider_calls[Len(provider_calls)])

\* C10: the delays between attempts are 1, 2, 4, ... seconds, each the double
\* of the one before; there is exactly one delay after each failed attempt
\* that is not the last allowed one, and none after a success or after the
\* failure of the last allowed attempt.
C10_ExponentialBackoff ==
    /\ \A i \in 1..Len(sleeps) :
          sleeps[i] = IF i = 1 THEN 1 ELSE 2 * sleeps[i - 1]
    /\ Len(sleeps) = Cardinality({i \in FailedCalls : i # call.max_retries})
    /\ dispatch_pc = "returned" => Len(sleeps) = Max(Len(provider_calls) - 1, 0)

\* a call that failed four times: it slept 1, 2 and 4 seconds and returned
\* after the fourth failure without a further delay
C10_Witness ==
    /\ dispatch_pc = "returned"
    /\ Len(provider_calls) = 4
    /\ FailedCalls = 1..4
    /\ sleeps = <<1, 2, 4>>

\* C11: a dispatch_to_llm call whose alias is unknown, or whose provider has
\* no configured client, returns in its first step: the response has status
\* error, no provider call was made and no delay slept, the message names
\* the alias (unknown alias) or the provider (no client), and the call adds
\* one to failed_requests and nothing to successful_requests.
C11_UnresolvableCallFailsAtOnce ==
    [][ (dispatch_pc = "idle" /\ dispatch_pc' # "idle" /\ ~ConfiguredCall') =>
          /\ dispatch_pc' = "returned"
          /\ response' # <<>>
          /\ response'[1].status = "error"
          /\ provider_calls' = <<>>
          /\ sleeps' = <<>>
          /\ Contains(response'[1].error_message,
                      IF call'.model_alias \in DOMAIN model_aliases
                      THEN model_aliases[call'.model_alias][1]
                      ELSE call'.model_alias)
          /\ failed_requests' = failed_requests + 1
          /\ successful_requests' = successful_requests ]_vars

\* the first request of a dispatcher without an openai client asked for
\* gpt-4: it has returned the error response and is counted as failed
C11_Witness ==
    /\ dispatch_pc = "returned"
    /\ call.model_alias = "gpt-4"
    /\ "openai" \notin clients
    /\ response = <<LLMResponse("error", "openai", "gpt-4",
                                "Provider openai not configured")>>
    /\ provider_calls = <<>>
    /\ total_requests = 1
    /\ failed_requests = 1

---------------------------------------------------------------------------
(* Properties of the pipeline, checked under SpecApp.                      *)

\* the request in progress is one the validation rejects: a required field
\* is missing, the input is too short or too long, the model is not
\* available, or the mode is unknown
InvalidRequest ==
    \/ request.user_input = ""
    \/ request.selected_llm = ""
    \/ Len(request.user_input) > max_input_length
    \/ Len(strip(request.user_input)) < 10
    \/ request.selected_llm \notin available_models
    \/ request.analysis_mode \notin valid_modes

\* the input of the request in progress is empty or holds whitespace only
BlankInput == strip(request.user_input) = ""

Entered(stage) == \E i \in 1..Len(stages) : stages[i] = stage

StageOrder == <<"validate", "classify", "premises", "modules", "compose", "dispatch",
                "format">>

\* C12: a request with an empty, too short or too long input, an unavailable
\* model or an unknown mode ends with a validation error as soon as it is
\* past the validation: no classification, no selection and no prompt were
\* made for it, the dispatcher was not called, and no step is run again.
C12_ValidationErrorsBeforeAnyStage ==
    (app_pc \notin {"idle", "validate"} /\ InvalidRequest) =>
        /\ app_pc = "done"
        /\ result # <<>>
        /\ result[1].status = "error"
        /\ result[1].error_type = "validation"
        /\ stages \in {<<>>, <<"validate">>}
        /\ rai_result = <<>>
        /\ complete_prompt = <<>>
        /\ dispatch_pc = "idle"
        /\ call = NoCall

\* a request for a model that is not available was rejected by the validation
C12_Witness ==
    /\ app_pc = "done"
    /\ components_loaded
    /\ request.user_input = DeepState
    /\ request.selected_llm = "llama-3"
    /\ request.analysis_mode = "guided"
    /\ stages = <<"validate">>
    /\ result[1].error_type = "validation"

C14_StagesInOrder ==
    /\ [](/\ Len(stages) <= Len(StageOrder)
          /\ \A i \in 1..Len(stages) : stages[i] = StageOrder[i]
          /\ dispatch_pc # "idle" => (app_pc = "llm" /\ stages = SubSeq(StageOrder, 1, 6))
          /\ Entered("format") => app_pc = "done")
    /\ [][/\ total_requests' # total_requests =>
                /\ total_requests' = total_requests + 1
                /\ stages = SubSeq(StageOrder, 1, 5)
                /\ stages' = SubSeq(StageOrder, 1, 6)
                /\ result = <<>>
          /\ Len(stages') > Len(stages) /\ stages'[Len(stages')] = "format" =>
                app_pc = "format"
          /\ app_pc' = "format" =>
                /\ app_pc = "llm"
                /\ response # <<>>
                /\ response[1].status = "success"]_vars

\* a request that went through every step: one dispatch, then the formatting
C14_Witness ==
    /\ app_pc = "done"
    /\ stages = StageOrder
    /\ result[1].status = "success"
    /\ total_requests = 1
    /\ successful_requests = 1

\* C15 as stated: on an empty or whitespace-only input the classification
\* step fails and module selection is not entered.  The classification step
\* is never entered for such an input: this statement is violated.
C15_BlankInputFailsClassification ==
    (app_pc = "done" /\ BlankInput) =>
        /\ Entered("classify")
        /\ result[1].error_type = "input_processing"
        /\ ~Entered("modules")

\* C15, amended: an empty or whitespace-only input is rejected by the input
\* validation, with a validation error; neither the classification nor the
\* module selection is entered for it.
C15_BlankInputRejectedByValidation ==
    (app_pc \notin {"idle", "validate"} /\ BlankInput) =>
        /\ app_pc = "done"
        /\ result[1].status = "error"
        /\ result[1].error_type = "validation"
        /\ ~Entered("classify")
        /\ ~Entered("premises")
        /\ ~Entered("modules")

\* a whitespace-only input sent with an available model and a valid mode
\* was rejected by the validation
C15_Witness ==
    /\ app_pc = "done"
    /\ request.user_input = "   "
    /\ request.selected_llm \in available_models
    /\ request.analysis_mode \in valid_modes
    /\ stages = <<"validate">>
    /\ result[1].error_type = "validation"

---------------------------------------------------------------------------
(* The formatted components (format_for_prompt).                           *)

\* the text made of these lines contains the fragment
Mentions(lines, fragment) ==
    \E l \in 1..Len(lines) : \E f \in 1..Len(lines[l]) : lines[l][f] = fragment

\* the module ids of the block header lines "**id: name**", in text order
BlockIds(lines) ==
    LET IsHeader(line) == Len(line) = 5 /\ line[1] = "**" /\ line[3] = ": "
        headers == SelectSeq(lines, IsHeader)
    IN  [i \in 1..Len(headers) |-> headers[i][2]]

\* C16: the formatted text contains the library name of every module of
\* execution_order, for every Selection the engine returns (main algorithm
\* and fallback): no selected module is dropped from the text.
C16_EveryOrderedModuleNamed ==
    engine_pc = "formatted" =>
        \A i \in 1..Len(selection.execution_order) :
            LET module_data == _get_module_data(selection.execution_order[i])
            IN  /\ module_data # <<>>
                /\ Mentions(formatted_components, module_data[1].name)

\* a formatted Selection of the main algorithm with ten modules or more
C16_Witness ==
    /\ engine_pc = "formatted"
    /\ ~Malformed(rai_input)
    /\ Len(selection.execution_order) >= 10
    /\ Len(BlockIds(formatted_components)) = Len(selection.execution_order)

\* C17 as stated: the module blocks of the formatted text follow one another
\* in the order of execution_order.  The blocks follow selection.components,
\* which keeps the order in which the modules were selected: this statement
\* is violated.
C17_BlocksInExecutionOrder ==
    engine_pc = "formatted" =>
        BlockIds(formatted_components)
            = [i \in 1..Len(selection.execution_order) |->
                  ModuleIdStr(selection.execution_order[i])]

---------------------------------------------------------------------------
(* The prompt sent to the LLM (_build_complete_prompt).                    *)

\* C18 as stated: the prompt handed to the dispatcher for a classified input
\* contains the raw input text together with its input type.  The dict
\* process_input returns has the key "rai_input" and the prompt builder
\* tests the key "input": the input analysis is never added, and this
\* statement is violated.
C18_PromptHoldsRawInput ==
    (app_pc = "llm" /\ "rai_input" \in DOMAIN rai_result[1]) =>
        \E i \in 1..Len(complete_prompt) :
            /\ Contains(complete_prompt[i], request.user_input)
            /\ Contains(complete_prompt[i], rai_result[1].rai_input.input_type)

---------------------------------------------------------------------------
(* The input classification (RAIWrapper._classify_input).                  *)

\* the call returned an RAIInput
Classified == wrapper_pc = "returned" /\ "rai_input" \in DOMAIN wrapper_result[1]

\* the text the classifier saw, and the markers of each check on it
ClassifiedText == wrapper_result[1].rai_input.cleaned_input
HasQuestionMarker ==
    \/ Contains(ClassifiedText, "?")
    \/ \E w \in question_openers : StartsWith(lower(ClassifiedText), w)
HasDateMarker == FactualPattern(ClassifiedText)
HasSystemWord == \E keyword \in system_keywords : Contains(lower(ClassifiedText), keyword)
HasNarrativeWord ==
    \E keyword \in narrative_keywords : Contains(lower(ClassifiedText), keyword)

\* C19: the input type is decided by the first check that matches, in the
\* order question, factual claim, system premise, narrative; it is mixed
\* when none matches.
C19_FirstMatchingCheckDecides ==
    Classified =>
        LET type == wrapper_result[1].rai_input.input_type
        IN  /\ HasQuestionMarker => type = "question"
            /\ (~HasQuestionMarker /\ HasDateMarker) => type = "factual_claim"
            /\ (~HasQuestionMarker /\ ~HasDateMarker /\ HasSystemWord)
                    => type = "system_premise"
            /\ (~HasQuestionMarker /\ ~HasDateMarker /\ ~HasSystemWord
                    /\ HasNarrativeWord) => type = "narrative"
            /\ (~HasQuestionMarker /\ ~HasDateMarker /\ ~HasSystemWord
                    /\ ~HasNarrativeWord) => type = "mixed"

\* a text with a date and a system keyword, and no question marker, was
\* classified by the earlier of the two checks
C19_Witness ==
    /\ Classified
    /\ ~HasQuestionMarker
    /\ HasDateMarker
    /\ HasSystemWord
    /\ wrapper_result[1].rai_input.input_type = "factual_claim"

\* C20 as stated: an input without question markers that holds an explicit
\* date or a word such as "reported" or "confirmed" is a factual claim; the
\* example sentence is one.  The pattern wants a year right after "on", "in",
\* "at" or "during" and knows no such word: the sentence is classified
\* mixed, and this statement is violated.
C20_DatedOrReportedIsFactualClaim ==
    (Classified /\ ~HasQuestionMarker
        /\ (\/ ClassifiedText = FactualDispute \o "."
            \/ Contains(ClassifiedText, "March 15, 2024")
            \/ Contains(lower(ClassifiedText), "reported")
            \/ Contains(lower(ClassifiedText), "confirmed")))
        => wrapper_result[1].rai_input.input_type = "factual_claim"

---------------------------------------------------------------------------
(* The entry point and the execution order.                                *)

\* the input category whose inputs get the bonus of a level
BonusCategory(level) ==
    CASE level = "system"    -> "system_premise"
      [] level = "narrative" -> "narrative"
      [] level = "fact"      -> "factual_claim"

\* the score of a level for the input of the call: keyword hits, bonus of
\* the category, and the complexity point of the system level
LevelScore(level) ==
    (CASE level = "system"    -> rai_input.system_hits
       [] level = "narrative" -> rai_input.narrative_hits
       [] level = "fact"      -> rai_input.fact_hits)
    + (IF rai_input.input_type = BonusCategory(level) THEN 2 ELSE 0)
    + (IF level = "system" /\ rai_input.complexity_score >= 4 THEN 1 ELSE 0)

\* C24: the entry point of a Selection of the main algorithm is a level of
\* maximal score (hits, plus 2 for the level of the input category, plus 1
\* for system at complexity 4 or more); on equal scores system is preferred
\* to narrative and narrative to fact.
C24_EntryLevelIsArgmaxWithTies ==
    (engine_pc = "returned" /\ ~Malformed(rai_input)) =>
        LET entry == selection.entry_point
        IN  /\ entry \in {"system", "narrative", "fact"}
            /\ \A level \in {"system", "narrative", "fact"} :
                   LevelScore(entry) >= LevelScore(level)
            /\ entry = "narrative" => LevelScore("system") < LevelScore("narrative")
            /\ entry = "fact" => /\ LevelScore("system") < LevelScore("fact")
                                 /\ LevelScore("narrative") < LevelScore("fact")

\* narrative and fact tie above system (a question with one narrative and one
\* fact keyword) and narrative is the entry point
C24_Witness ==
    /\ engine_pc = "returned"
    /\ ~Malformed(rai_input)
    /\ rai_input.input_type = "question"
    /\ LevelScore("narrative") = LevelScore("fact")
    /\ LevelScore("system") < LevelScore("narrative")
    /\ selection.entry_point = "narrative"

\* the level groups in the order the claim gives them for an entry level,
\* the cross-cutting group first
GroupOrder(entry) ==
    CASE entry = "system"    -> <<"CL", "SL", "NL", "FL">>
      [] entry = "narrative" -> <<"CL", "NL", "FL", "SL">>
      [] entry = "fact"      -> <<"CL", "FL", "NL", "SL">>

\* the position of a module's level group for an entry level
GroupRank(module_id, entry) ==
    CHOOSE k \in 1..4 : GroupOrder(entry)[k] = module_id[1]

\* C25: in execution_order CL-0, when selected, is first; the other CL
\* modules come before every FL, NL and SL module; the FL, NL and SL modules
\* form three contiguous groups in the order given by the entry point
\* (system: SL NL FL; narrative: NL FL SL; fact: FL NL SL).  Main algorithm
\* and fallback alike.
C25_GroupsOrderedByEntryLevel ==
    engine_pc = "returned" =>
        LET order == selection.execution_order
            entry == selection.entry_point
        IN  /\ In(CL(0), order) => order[1] = CL(0)
            /\ \A i \in 1..Len(order) : \A j \in 1..Len(order) :
                   i < j => GroupRank(order[i], entry) <= GroupRank(order[j], entry)

\* a system-entry Selection with CL-0, two more CL modules and modules of
\* the three content levels, selected in another order
C25_Witness ==
    /\ engine_pc = "returned"
    /\ selection.entry_point = "system"
    /\ selection.execution_order[1] = CL(0)
    /\ Len(WithPrefix(selection.execution_order, "CL")) >= 3
    /\ \A level \in {"FL", "NL", "SL"} : WithPrefix(selection.execution_order, level) # <<>>
    /\ selection.execution_order # SelectedIds

---------------------------------------------------------------------------
(* The premises of a Selection.                                            *)

\* C27 as stated: total_premises is the number of distinct premise ids that
\* the selected modules anchor and the library resolves.  It is the sum of
\* the lengths of the components' premise lists, in which a premise anchored
\* by several selected modules occurs once per module: this statement is
\* violated.
C27_TotalPremisesCountsDistinct ==
    engine_pc = "returned" =>
        selection.total_premises = Cardinality(ResolvedPremiseIds)

---------------------------------------------------------------------------
(* The topic labels of the classifier and the topic table of the engine.   *)

\* C30 as stated: every key of the engine's topic table is a label the
\* classifier can emit, and every detected topic of an input is a key of the
\* table whose modules are then among the selected ones.  The classifier
\* emits civilization, ethics and temporal, which the table does not hold,
\* and never emits the table's key cultural: this statement is violated.
C30_TopicVocabulariesAgree ==
    (engine_pc = "returned" /\ ~Malformed(rai_input)) =>
        /\ DOMAIN topic_modules \subseteq Range(TopicDomains)
        /\ \A i \in 1..Len(rai_input.detected_topics) :
               LET topic == rai_input.detected_topics[i]
               IN  /\ topic \in DOMAIN topic_modules
                   /\ \A k \in 1..Len(topic_modules[topic]) :
                          In(topic_modules[topic][k], SelectedIds)

---------------------------------------------------------------------------
(* The usage counters of the dispatcher.                                   *)

\* no call is made with an empty range of attempts
RetriesAtLeastOne == dispatch_pc # "idle" => call.max_retries >= 1

\* the counters of completed calls add up
CountersAddUp == total_requests = successful_requests + failed_requests

\* C28: in a run of sequential calls that all have max_retries >= 1, the
\* counters add up whenever no call is in progress; and each call adds 1 to
\* total_requests when it starts and, when it returns, 1 to exactly one of
\* successful_requests and failed_requests, whatever the number of attempts:
\* no other step changes a counter.
C28_CountersAddUpSequentially ==
    /\ ([]RetriesAtLeastOne) => [](dispatch_pc \in {"idle", "returned"} => CountersAddUp)
    /\ [][(IF dispatch_pc = "idle" THEN call' ELSE call).max_retries >= 1 =>
             /\ total_requests' = total_requests
                   + (IF dispatch_pc = "idle" /\ dispatch_pc' # "idle" THEN 1 ELSE 0)
             /\ successful_requests' + failed_requests'
                   = successful_requests + failed_requests
                     + (IF dispatch_pc' = "returned" /\ dispatch_pc # "returned"
                        THEN 1 ELSE 0)
             /\ successful_requests' >= successful_requests
             /\ failed_requests' >= failed_requests]_vars

\* the second of two calls returned after three attempts; one call
\* succeeded and one failed
C28_Witness ==
    /\ dispatch_pc = "returned"
    /\ call.max_retries >= 1
    /\ Len(provider_calls) >= 3
    /\ total_requests = 2
    /\ successful_requests = 1
    /\ failed_requests = 1

\* the dispatch_to_llm calls the threads have made
RECURSIVE CallsMade(_)
CallsMade(n) == IF n = 0 THEN 0 ELSE threads[n].calls + CallsMade(n - 1)

\* C29 as stated: once every concurrent call has returned, total_requests is
\* the number of calls made and the counters add up.  The counter updates
\* are unlocked load-add-store sequences: two threads that load the same
\* value store the same value, one update is lost, and this statement is
\* violated.
C29_NoLostCounterUpdate ==
    (\A t \in Threads : threads[t].pc = "idle") =>
        /\ total_requests = CallsMade(MaxThreads)
        /\ successful_requests + failed_requests = total_requests

---------------------------------------------------------------------------
(* Properties of the output parser, checked under SpecParser.              *)

\* the lines of the response that are not blank, in input order
NonBlankLines(raw) == SelectSeq(split(raw, "\n"), LAMBDA l : strip(l) # "")

\* the elements of an HTML text inside its container
Body(html) == SubSeq(html, 2, Len(html) - 1)

\* text without the inline tags of _format_text
Untag(text) ==
    replace(replace(replace(replace(text, "<strong>", ""), "</strong>", ""), "<em>", ""),
            "</em>", "")

\* text without the characters of emphasis and heading markers
Demark(text) == replace(replace(text, "*", ""), "#", "")

\* the characters a line's leading marker is made of
MarkerChars == DigitChars \cup {" ", ".", "-", "+", ">"}

\* the element carries the line's content: its text is the line's after the
\* leading marker, emphasis markers aside
Carries(element, line) ==
    LET d == strip(Demark(line))
        t == Demark(Untag(element[2]))
    IN  /\ Len(t) <= Len(d)
        /\ SubSeq(d, Len(d) - Len(t) + 1, Len(d)) = t
        /\ SkipRun(SubSeq(d, 1, Len(d) - Len(t)), MarkerChars) = ""

\* the line holds none of the markdown the parser recognises
PlainLine(line) ==
    /\ strip(line) # ""
    /\ Char(strip(line), 1) \notin DigitChars \cup {"#", ">", "-", "+", "*"}
    /\ ~Contains(line, "*")

\* the call returned what the try block built
Formatted == parser_pc = "returned" /\ ~ParseRaises(parser_args)

\* C21: parse_llm_response always returns a result; when its try block
\* completes, the container holds exactly one element per non-blank line of
\* the response, in line order, each carrying its line's content, and a line
\* with no recognised markdown is a paragraph of its stripped text; when
\* the try block raises, the result is the container around the raw text.
C21_NoLineDroppedNoThrow ==
    parser_pc = "returned" =>
        /\ Len(parsed_result) = 1
        /\ Head(parsed_result[1].html_content) = ContainerOpen
        /\ parsed_result[1].html_content[Len(parsed_result[1].html_content)] = ContainerClose
        /\ ~ParseRaises(parser_args) =>
              LET lines == NonBlankLines(parser_args.raw_response[1])
                  elements == Body(parsed_result[1].html_content)
              IN  /\ Len(elements) = Len(lines)
                  /\ \A i \in 1..Len(lines) :
                        /\ Carries(elements[i], lines[i])
                        /\ PlainLine(lines[i]) =>
                              elements[i] = <<"<p class=\"rai-paragraph\">",
                                              strip(lines[i]), "</p>\n">>
        /\ ParseRaises(parser_args) =>
              /\ Len(parsed_result[1].html_content) = 5
              /\ parsed_result[1].html_content[3]
                    = <<"<pre>", Str(parser_args.raw_response), "</pre>">>

\* a two-line response whose first line is a plain one and whose second is
\* bare emphasis markers has been formatted
C21_Witness ==
    /\ Formatted
    /\ LET lines == NonBlankLines(parser_args.raw_response[1])
       IN  Len(lines) = 2 /\ PlainLine(lines[1]) /\ lines[2] = "**"

\* a call whose metadata is no dictionary has returned the fallback
C21_FallbackWitness ==
    /\ parser_pc = "returned"
    /\ parser_args.metadata = "str"
    /\ parser_args.raw_response # <<>>

\* the element is a list item
IsListItem(element) == StartsWith(element[1], "<li")

\* the fragment opens, or closes, a list element
OpensList(element) == StartsWith(element[1], "<ul") \/ StartsWith(element[1], "<ol")
ClosesList(element) == StartsWith(element[1], "</ul") \/ StartsWith(element[1], "</ol")

\* the element at position i of the HTML text lies inside a list element:
\* one is opened before it and not closed in between
InsideList(html, i) ==
    \E j \in 1..(i - 1) :
        /\ OpensList(html[j])
        /\ \A k \in (j + 1)..(i - 1) : ~ClosesList(html[k])
        /\ \E k \in (i + 1)..Len(html) : ClosesList(html[k])

\* C22: in the formatted HTML every list item lies inside an enclosing list
\* element, and two adjacent list items have no list boundary between them.
C22_ListRunsAreWrapped ==
    Formatted =>
        LET html == parsed_result[1].html_content
        IN  \A i \in 1..Len(html) : IsListItem(html[i]) => InsideList(html, i)

---------------------------------------------------------------------------
(* Properties of the shared components, checked under SpecApp.             *)

\* C23: between requests every shared component is as its construction
\* left it: the wrapper, the engine and the parser hold no call, the
\* dispatcher holds no call and its request counters are those of
\* __init__, and no request changes the dispatcher's clients, the wrapper's
\* configuration or the loaded components.
C23_SharedStateAsInitialised ==
    /\ [](app_pc = "idle" =>
             /\ wrapper_pc = "idle" /\ engine_pc = "idle" /\ parser_pc = "idle"
             /\ dispatch_pc = "idle"
             /\ total_requests = 0
             /\ successful_requests = 0
             /\ failed_requests = 0)
    /\ [][/\ clients' = clients
          /\ default_output_mode' = default_output_mode
          /\ components_loaded' = components_loaded]_vars

====
